---- MODULE Spec2Model ----
(***************************************************************************)
(* Conversation orchestration of the campus agent                          *)
(* (backend/unified_agent.py, backend/main.py).                            *)
(*                                                                         *)
(* A text is a sequence of tokens; a token is one character, except that   *)
(* a keyword of an utterance and a tool name are kept as one token.        *)
(* Session ids are integers: 0 stands for an absent id (None or ""),       *)
(* negative numbers are ids chosen by a client, positive numbers are the   *)
(* values of uuid.uuid4() in the order they are drawn.                     *)
(***************************************************************************)
EXTENDS Integers, Sequences, FiniteSets, TLC

\* ------------------------------------------------------------------ bounds
MaxTurns == 2
MaxRounds == 2
MaxCalls == 2
MaxFrags == 2
MaxWords == 3
MaxToolRounds == 1
MaxTasks == 2
MaxDocs == 4
MaxLogs == 2
MaxReads == 1

\* ------------------------------------------------------------------- texts
RECURSIVE Concat(_)
Concat(ss) == IF ss = <<>> THEN <<>> ELSE Head(ss) \o Concat(Tail(ss))

Prefix(s, n) == SubSeq(s, 1, n)

IsPrefix(s, t) == Len(s) <= Len(t) /\ SubSeq(t, 1, Len(s)) = s

\* str.split() separators
Whitespace == {" ", "\n"}

\* the words of s.split(): maximal runs of non-whitespace tokens
RECURSIVE SplitFrom(_, _, _)
SplitFrom(s, i, cur) ==
  IF i > Len(s) THEN (IF cur = <<>> THEN <<>> ELSE <<cur>>)
  ELSE IF s[i] \in Whitespace
       THEN (IF cur = <<>> THEN <<>> ELSE <<cur>>) \o SplitFrom(s, i + 1, <<>>)
       ELSE SplitFrom(s, i + 1, Append(cur, s[i]))

Split(s) == SplitFrom(s, 1, <<>>)

\* Python truthiness of a str
Truthy(s) == Len(s) > 0

\* f"I encountered an error: {str(e)}"
ModelErrorText(detail) ==
  <<"I", " ", "e", "n", "c", "o", "u", "n", "t", "e", "r", "e", "d", " ", "a",
    "n", " ", "e", "r", "r", "o", "r", ":", " ">> \o detail

\* f"I apologize, but I encountered an error while processing your NUST query: {str(e)}"
NustErrorText(detail) ==
  <<"I", " ", "a", "p", "o", "l", "o", "g", "i", "z", "e", ",", " ", "b", "u",
    "t", " ", "I", " ", "e", "n", "c", "o", "u", "n", "t", "e", "r", "e", "d",
    " ", "a", "n", " ", "e", "r", "r", "o", "r", " ", "w", "h", "i", "l", "e",
    " ", "p", "r", "o", "c", "e", "s", "s", "i", "n", "g", " ", "y", "o", "u",
    "r", " ", "N", "U", "S", "T", " ", "q", "u", "e", "r", "y", ":", " ">>
  \o detail

\* f"I encountered an error while processing your request: {str(e)}"
RequestErrorText(detail) ==
  <<"I", " ", "e", "n", "c", "o", "u", "n", "t", "e", "r", "e", "d", " ", "a",
    "n", " ", "e", "r", "r", "o", "r", " ", "w", "h", "i", "l", "e", " ", "p",
    "r", "o", "c", "e", "s", "s", "i", "n", "g", " ", "y", "o", "u", "r", " ",
    "r", "e", "q", "u", "e", "s", "t", ":", " ">> \o detail

\* f"I apologize, but I encountered an error: {str(e)}"
ApologyText(detail) ==
  <<"I", " ", "a", "p", "o", "l", "o", "g", "i", "z", "e", ",", " ", "b", "u",
    "t", " ", "I", " ", "e", "n", "c", "o", "u", "n", "t", "e", "r", "e", "d",
    " ", "a", "n", " ", "e", "r", "r", "o", "r", ":", " ">> \o detail

\* "I'm sorry, I couldn't process your request properly."
SorryText ==
  <<"I", "'", "m", " ", "s", "o", "r", "r", "y", ",", " ", "I", " ", "c", "o",
    "u", "l", "d", "n", "'", "t", " ", "p", "r", "o", "c", "e", "s", "s", " ",
    "y", "o", "u", "r", " ", "r", "e", "q", "u", "e", "s", "t", " ", "p", "r",
    "o", "p", "e", "r", "l", "y", ".">>

\* f"Error executing {tool_call['name']}: {str(e)}"
ToolErrorText(name, detail) ==
  <<"E", "r", "r", "o", "r", " ", "e", "x", "e", "c", "u", "t", "i", "n", "g",
    " ", name, ":", " ">> \o detail

\* ------------------------------------------------------- inputs of a turn
\* str.lower() on the tokens the utterances below are made of
Lower(tok) ==
  CASE tok = "NUST" -> "nust"
    [] tok = "List Students" -> "list students"
    [] tok = "Add Student" -> "add student"
    [] tok = "National University" -> "national university"
    [] tok = "A" -> "a"
    [] tok = "B" -> "b"
    [] OTHER -> tok

\* str.lower() on a text
LowerText(text) == [i \in 1..Len(text) |-> Lower(text[i])]

nust_keywords == {"nust", "national university", "sciences technology",
                  "islamabad university"}

admin_keywords == {"add student", "delete student", "update student",
                   "list students", "student info", "campus analytics",
                   "statistics"}

\* any(keyword in text.lower() for keyword in keywords)
ContainsAny(text, keywords) ==
  \E i \in 1..Len(text) : Lower(text[i]) \in keywords

Utterances == {<<"List Students">>, <<"NUST">>, <<"h", "i">>,
               <<"nust", " ", "Add Student">>}

\* the tokens of the utterances classify_query is tried on
ClassifyTokens == {"nust", "NUST", "National University", "list students",
                   "Add Student", "h", " "}

\* what the LLM may answer, and the str(e) of what may be raised
Texts == {<<>>, <<" ">>, <<"a">>, <<"a", " ", "b">>}

Details == {<<"E">>}

\* the contents of the chunks llm.astream may yield
FragTexts == {<<>>, <<"a">>, <<"a", " ">>}

ClientIds == {-1}

\* the names bound to the LLM, self.tools
ToolNames == {"add_student_tool", "get_student_info", "update_student_info",
              "delete_student_tool", "list_all_students",
              "get_campus_analytics"}

\* the names the LLM is let to ask for: one of the registry, one outside it
CalledNames == {"list_all_students", "unknown_tool"}

\* tool_call["args"] of a tool that takes no argument: {}
NoArgs == <<>>

\* what the LLM asks for in a tool call: a name and its arguments
Asked(name, args) == [name |-> name, args |-> args]

StudentIds == {"STU001", "STU011"}

Emails == {"ali.ahmed@nust.edu.pk", "new@nust.edu.pk"}

\* (field, new_value) of update_student_info: two allowed fields, one not
Updates == {<<"name", "New Name">>, <<"email", "ali.ahmed@nust.edu.pk">>,
            <<"grade", "A">>}

\* the tool calls tried on the tools: every tool, on a student that is
\* there and on one that is not
AskedTools ==
  {Asked("add_student_tool",
         [name |-> "New Name", student_id |-> id, department |-> "Physics",
          email |-> em]) : id \in StudentIds, em \in Emails}
  \cup {Asked(n, [student_id |-> id]) :
          n \in {"get_student_info", "delete_student_tool"},
          id \in StudentIds}
  \cup {Asked("update_student_info",
               [student_id |-> id, field |-> u[1], new_value |-> u[2]]) :
          id \in StudentIds, u \in Updates}
  \cup {Asked(n, NoArgs) :
          n \in {"list_all_students", "get_campus_analytics",
                 "unknown_tool"}}

\* a row of the table students (its timestamps are left out)
Student(student_id, name, department, email) ==
  [id |-> student_id, name |-> name, department |-> department,
   email |-> email]

\* the rows _create_default_data inserts (the first of its ten)
sample_students ==
  {Student("STU001", "Ali Ahmed", "Computer Science",
           "ali.ahmed@nust.edu.pk")}

\* the tables after init_database on an empty file
InitialDb ==
  [students |-> [id \in {st.id : st \in sample_students} |->
                   CHOOSE st \in sample_students : st.id = id],
   activity_logs |-> <<>>]

\* what the collaborators of a tool do during one call: the storage works,
\* raises on a read (get_student, list_students, get_campus_analytics) or
\* raises on a write; the notification is sent, reports a failure or raises
Envs ==
  [storage : {"ok", "read_error", "write_error"},
   mail : {"sent", "failed", "raise"}]

QuietEnv == [storage |-> "ok", mail |-> "sent"]

\* Document(page_content, metadata): the title of the metadata is kept
Document(title, page_content) ==
  [title |-> title, page_content |-> page_content]

\* _create_basic_nust_data (abridged to the opening words)
basic_nust_info ==
  <<Document(<<"NUST", " ", "Overview">>,
             <<"NUST", " ", "is", " ", "a", " ", "university">>),
    Document(<<"NUST", " ", "Schools">>,
             <<"NUST", " ", "has", " ", "multiple", " ", "schools">>),
    Document(<<"NUST", " ", "Admissions">>,
             <<"NUST", " ", "admission", " ", "is", " ", "through", " ",
               "NET">>),
    Document(<<"NUST", " ", "Research">>,
             <<"NUST", " ", "is", " ", "known", " ", "for", " ",
               "research">>)>>

RECURSIVE SeqsUpTo(_, _)
SeqsUpTo(S, n) ==
  IF n = 0 THEN {<<>>}
  ELSE LET shorter == SeqsUpTo(S, n - 1)
       IN shorter \cup {Append(s, x) : s \in {t \in shorter : Len(t) = n - 1}, x \in S}

\* ------------------------------------------------------------------- state
VARIABLES
  sessions,     \* self.sessions: session id -> session
  uuids,        \* how many uuid4 values were drawn
  clock,        \* datetime.now(), as the number of the turn
  turns,        \* turns started
  api,          \* the operation the caller invoked
  pc,           \* where the turn stands
  request,      \* [message, session_id] as given by the caller
  session_id,   \* the local session_id of chat() / stream_chat()
  state,        \* the UnifiedAgentState of the graph run
  raised,       \* <<str(e)>> of the exception graph.invoke raised, or <<>>
  llmLog,       \* the outcomes of the LLM invocations of this turn
  toolLog,      \* per executed tool round, the calls it was given
  webLog,       \* the outcomes of the web searches of this turn
  result,       \* what chat() returned
  runner,       \* who invoked the graph: chat() or stream_chat()
  stream,       \* the snapshots stream_chat() yielded
  events,       \* the events event_generator() of /chat/stream yielded
  endpoint,     \* the locals of event_generator()
  dbLog,        \* the messages table, in insertion order
  before,       \* self.sessions as the turn found it
  db,           \* self.db: the tables students and activity_logs
  tasks,        \* the coroutines in flight on the event loop
  observed,     \* per session id, the history get_session_info last gave
  rag,          \* nust_rag: json_docs, and the last query and its results
  analytics,    \* what db.get_campus_analytics() last returned, or <<>>
  created       \* the last call of create_session by a caller of the agent

vars == <<sessions, uuids, clock, turns, api, pc, request, session_id, state,
          raised, llmLog, toolLog, webLog, result, runner, stream, events,
          endpoint, dbLog, before, db, tasks, observed, rag, analytics,
          created>>

\* what the turns of chat(), stream_chat() and /chat/stream, taken one
\* after another, leave alone
others == <<tasks, observed, rag, analytics, created>>

NoState == [messages |-> <<>>, query |-> <<>>, operation_type |-> "",
            final_answer |-> <<>>]

NoResult == [response |-> <<>>, session_id |-> 0, returned |-> FALSE]

NoEndpoint ==
  [session_id |-> 0, full_response |-> <<>>, branch |-> "none",
   user_id |-> "none"]

\* a coroutine of chat() or stream_chat(): its arguments, its locals, of
\* the entries it added to a history, which (wrote), where (at) and when,
\* the snapshots it yielded, and whether its session was gone when it
\* came back from its last await (lost)
NoTask ==
  [api |-> "none", pc |-> "idle", message |-> <<>>, session_id |-> 0,
   full_content |-> <<>>, wrote |-> <<>>, at |-> <<>>, when |-> <<>>,
   snapshots |-> <<>>, lost |-> FALSE]

\* nust_rag once _load_json_data has run; results: the positions in
\* json_docs of the documents retrieve_context returned for query
Loaded(docs) ==
  [json_docs |-> docs, query |-> <<>>, results |-> <<>>, asked |-> FALSE]

\* the agent and the HTTP layer after construction, but for the corpus
Constructed ==
  /\ sessions = <<>>
  /\ uuids = 0
  /\ clock = 0
  /\ turns = 0
  /\ api = "none"
  /\ pc = "idle"
  /\ request = [message |-> <<>>, session_id |-> 0]
  /\ session_id = 0
  /\ state = NoState
  /\ raised = <<>>
  /\ llmLog = <<>>
  /\ toolLog = <<>>
  /\ webLog = <<>>
  /\ result = NoResult
  /\ runner = "none"
  /\ stream = <<>>
  /\ events = <<>>
  /\ endpoint = NoEndpoint
  /\ dbLog = <<>>
  /\ before = <<>>
  /\ db = InitialDb
  /\ tasks = [t \in 1..MaxTasks |-> NoTask]
  /\ observed = <<>>
  /\ analytics = <<>>
  /\ created = <<>>

Init == Constructed /\ rag = Loaded(basic_nust_info)

\* ---------------------------------------------------------------- sessions
NewSession(user_id, sid, now) ==
  [session_id |-> sid, user_id |-> user_id, created_at |-> now,
   last_activity |-> now, conversation_history |-> <<>>]

Put(store, sid, s) ==
  [k \in (DOMAIN store) \cup {sid} |-> IF k = sid THEN s ELSE store[k]]

\* a slip: the session is made anew even when its id is there
create_session_overwriting(store, user_id, sid, now) ==
  Put(store, sid, NewSession(user_id, sid, now))

\* create_session, called with a session_id that is set
create_session(store, user_id, sid, now) ==
  IF sid \in DOMAIN store THEN store
  ELSE Put(store, sid, NewSession(user_id, sid, now))

Touch(store, sid, now) ==
  Put(store, sid, [store[sid] EXCEPT !.last_activity = now])

\* a slip: one list shared by the sessions
Extend_shared(store, sid, entries) ==
  [k \in DOMAIN store |->
     [store[k] EXCEPT !.conversation_history = @ \o entries]]

Extend(store, sid, entries) ==
  Put(store, sid,
      [store[sid] EXCEPT !.conversation_history = @ \o entries])

Entry(role, content) == [role |-> role, content |-> content]


\* ------------------------------------------------------------ the LLM
\* What one invocation of the LLM does: it raises, or it answers with a
\* content and a list of tool calls.
\* kind: "invoke" (llm.invoke, llm.ainvoke), "astream" (llm.astream, which
\* yields the fragments frags and then ends or raises) or "context" (the
\* prompt could not be built, the LLM was not reached)
LlmRaise(detail) ==
  [kind |-> "invoke", raises |-> TRUE, content |-> <<>>, tool_calls |-> <<>>,
   detail |-> detail, frags |-> <<>>]

LlmAnswer(content, calls) ==
  [kind |-> "invoke", raises |-> FALSE, content |-> content,
   tool_calls |-> calls, detail |-> <<>>, frags |-> <<>>]

LlmStream(frags, raises, detail) ==
  [kind |-> "astream", raises |-> raises, content |-> <<>>,
   tool_calls |-> <<>>, detail |-> detail, frags |-> frags]

ContextRaise(detail) ==
  [kind |-> "context", raises |-> TRUE, content |-> <<>>,
   tool_calls |-> <<>>, detail |-> detail, frags |-> <<>>]

\* the tool calls of a response: what is asked for, each with its own id
ToolCalls(asked, round, width) ==
  [i \in 1..Len(asked) |->
     [name |-> asked[i].name, args |-> asked[i].args,
      id |-> round * width + i]]

\* json: the dict a ToolMessage's content spells (<<>> when the content is
\* plain text)
HumanMessage(content) ==
  [type |-> "human", content |-> content, tool_calls |-> <<>>,
   tool_call_id |-> 0, json |-> <<>>]

AIMessage(content, calls) ==
  [type |-> "ai", content |-> content, tool_calls |-> calls,
   tool_call_id |-> 0, json |-> <<>>]

ToolMessage(content, id) ==
  [type |-> "tool", content |-> content, tool_calls |-> <<>>,
   tool_call_id |-> id, json |-> <<>>]

Last(s) == s[Len(s)]

\* an invocation of the LLM as the log of the turn keeps it: its outcome,
\* and the messages it was given (none when the LLM was not reached)
Invoked(out, input) ==
  [kind |-> out.kind, raises |-> out.raises, content |-> out.content,
   tool_calls |-> out.tool_calls, detail |-> out.detail, frags |-> out.frags,
   input |-> input]

\* the instructions call_model puts in front of the messages
system_message == <<"system_message">>

\* full_messages = [HumanMessage(content=system_message)] + messages
full_messages(messages) == <<HumanMessage(system_message)>> \o messages

\* history[-6:]
LastSix(history) ==
  IF Len(history) <= 6 THEN history
  ELSE SubSeq(history, Len(history) - 5, Len(history))

\* the conversation so far, one line per entry
RECURSIVE HistoryText(_)
HistoryText(history) ==
  IF history = <<>> THEN <<>>
  ELSE <<IF Head(history).role = "user" THEN "User:" ELSE "Assistant:">>
       \o Head(history).content \o <<"\n">> \o HistoryText(Tail(history))

build_prompt(message, context, history) ==
  <<"system_prompt">>
  \o (IF Truthy(context) THEN <<"Relevant Context:">> \o context ELSE <<>>)
  \o <<"Conversation History:">> \o HistoryText(LastSix(history))
  \o <<"User:">> \o message \o <<"Assistant:">>

\* ------------------------------------------- NUSTRAGSystem, WebSearchTool
\* an entry of the list search() returns
WebResult(title, snippet, source) ==
  [title |-> title, snippet |-> snippet, url |-> "", source |-> source]

\* the query handed to the provider: lines 149-150
nust_query(query) ==
  IF \E i \in 1..Len(query) : Lower(query[i]) = "nust"
  THEN <<"NUST University Pakistan", " ">> \o query
  ELSE query

\* what one call of search() meets: the provider was not initialised
\* (self.ddgs is None), it answers with entries or with none, or the
\* request raises
WebOutcomes == {"results", "empty", "error", "unavailable"}

\* a slip: a failed request is answered like an empty one
search_quiet(query, outcome, detail) ==
  [outcome |-> outcome, query |-> query,
   sent |-> IF outcome = "unavailable" THEN <<>> ELSE <<nust_query(query)>>,
   results |-> IF outcome = "results"
               THEN <<WebResult("title", <<"body">>, "DuckDuckGo")>>
               ELSE <<>>]

\* WebSearchTool.search: the list returned (results) and, for the log of
\* the turn, the query given and the one sent to the provider (<<>> when
\* none was sent)
search(query, outcome, detail) ==
  [outcome |-> outcome, query |-> query,
   sent |-> IF outcome = "unavailable" THEN <<>> ELSE <<nust_query(query)>>,
   results |->
     CASE outcome = "unavailable" ->
            <<WebResult("Search Unavailable",
                        <<"Web search is currently unavailable">>, "Error")>>
       [] outcome = "error" ->
            <<WebResult("Search Error",
                        <<"Could not perform web search: ">> \o detail,
                        "Error")>>
       [] outcome = "results" ->
            <<WebResult("title", <<"body">>, "DuckDuckGo")>>
       [] OTHER -> <<>>]

\* lines 424-428: web_context
RECURSIVE WebLines(_)
WebLines(web_results) ==
  IF web_results = <<>> THEN <<>>
  ELSE <<"- ", Head(web_results).title, ": ">> \o Head(web_results).snippet
       \o <<"\n">> \o WebLines(Tail(web_results))

web_context(web_results) ==
  IF web_results = <<>> THEN <<>>
  ELSE <<"Recent information:">> \o WebLines(web_results)

\* the prompt of handle_nust_query: the instructions, the question, the
\* context of the knowledge base and what the web search gave
nust_prompt(query, web_results) ==
  <<"System:", "system_prompt", "Question:">> \o query
  \o <<"NUST Knowledge Base Context:", "rag_docs">>
  \o web_context(web_results)

\* s.count(sub) from position i on: the occurrences that do not overlap,
\* taken from the left
RECURSIVE CountFrom(_, _, _)
CountFrom(s, sub, i) ==
  IF i + Len(sub) - 1 > Len(s) THEN 0
  ELSE IF SubSeq(s, i, i + Len(sub) - 1) = sub
       THEN 1 + CountFrom(s, sub, i + Len(sub))
       ELSE CountFrom(s, sub, i + 1)

Count(s, sub) == CountFrom(s, sub, 1)

\* lines 113-118, for the keywords from the k-th on
RECURSIVE ScoreFrom(_, _, _)
ScoreFrom(doc, keywords, k) ==
  IF k > Len(keywords) THEN 0
  ELSE Count(LowerText(doc.page_content), keywords[k])
       + Count(LowerText(doc.title), keywords[k]) * 2
       + ScoreFrom(doc, keywords, k + 1)

\* the relevance score of one document for a query
Score(doc, query) == ScoreFrom(doc, Split(LowerText(query)), 1)

\* scored_docs, as the positions in json_docs of the documents that score
RECURSIVE ScoredFrom(_, _, _)
ScoredFrom(docs, query, i) ==
  IF i > Len(docs) THEN <<>>
  ELSE (IF Score(docs[i], query) > 0 THEN <<i>> ELSE <<>>)
       \o ScoredFrom(docs, query, i + 1)

\* list.sort(key, reverse=True) puts an element behind those of its key
\* and above: the sort is stable
RECURSIVE InsertDesc(_, _, _, _)
InsertDesc(sorted, i, docs, query) ==
  IF sorted = <<>> THEN <<i>>
  ELSE IF Score(docs[Head(sorted)], query) >= Score(docs[i], query)
       THEN <<Head(sorted)>> \o InsertDesc(Tail(sorted), i, docs, query)
       ELSE <<i>> \o sorted

RECURSIVE SortDesc(_, _, _)
SortDesc(scored, docs, query) ==
  IF scored = <<>> THEN <<>>
  ELSE InsertDesc(SortDesc(SubSeq(scored, 1, Len(scored) - 1), docs, query),
                  scored[Len(scored)], docs, query)

\* a slip: the first three that score, unsorted
retrieve_context_unsorted(docs, query) ==
  LET scored == ScoredFrom(docs, query, 1)
  IN SubSeq(scored, 1, IF Len(scored) < 3 THEN Len(scored) ELSE 3)

\* retrieve_context: the positions in json_docs of the documents returned
retrieve_context(docs, query) ==
  LET scored == SortDesc(ScoredFrom(docs, query, 1), docs, query)
  IN SubSeq(scored, 1, IF Len(scored) < 3 THEN Len(scored) ELSE 3)

\* ------------------------------------------------- storage (models.py)
allowed_fields == {"name", "department", "email"}

Activity(student_id, activity) ==
  [student_id |-> student_id, activity |-> activity]

\* the UNIQUE constraint on students.email, for a row other than `but`
EmailTaken(d, email, but) ==
  \E id \in DOMAIN d.students :
    id # but /\ d.students[id].email = email

Stored(d, success) == [db |-> d, success |-> success]

\* a slip: INSERT OR REPLACE, a duplicate id overwrites the row
add_student_replacing(d, student_id, name, department, email, fault) ==
  IF fault THEN Stored(d, FALSE)
  ELSE Stored([students |-> Put(d.students, student_id,
                                Student(student_id, name, department, email)),
               activity_logs |-> Append(d.activity_logs,
                                        Activity(student_id,
                                                 <<"Student registered">>))],
              TRUE)

\* fault: sqlite raises in this call; a duplicate id or email raises too;
\* what was executed before the exception is not committed
add_student(d, student_id, name, department, email, fault) ==
  IF fault \/ student_id \in DOMAIN d.students \/ EmailTaken(d, email, "")
  THEN Stored(d, FALSE)
  ELSE Stored([students |-> Put(d.students, student_id,
                                Student(student_id, name, department, email)),
               activity_logs |-> Append(d.activity_logs,
                                        Activity(student_id,
                                                 <<"Student registered">>))],
              TRUE)

\* Optional[Dict]: <<row>> or <<>>
get_student(d, student_id) ==
  IF student_id \in DOMAIN d.students THEN <<d.students[student_id]>>
  ELSE <<>>

\* a slip: students.email without its UNIQUE constraint
update_student_any_email(d, student_id, field, new_value, fault) ==
  IF field \notin allowed_fields \/ fault THEN Stored(d, FALSE)
  ELSE Stored([students |->
                 IF student_id \in DOMAIN d.students
                 THEN Put(d.students, student_id,
                          [d.students[student_id] EXCEPT ![field] = new_value])
                 ELSE d.students,
               activity_logs |-> Append(d.activity_logs,
                                        Activity(student_id,
                                                 <<"Updated", field>>))],
              TRUE)

\* the UPDATE changes the row when there is one; the activity is logged
\* either way
update_student(d, student_id, field, new_value, fault) ==
  IF field \notin allowed_fields THEN Stored(d, FALSE)
  ELSE IF fault
          \/ (student_id \in DOMAIN d.students /\ field = "email"
              /\ EmailTaken(d, new_value, student_id))
  THEN Stored(d, FALSE)
  ELSE Stored([students |->
                 IF student_id \in DOMAIN d.students
                 THEN Put(d.students, student_id,
                          [d.students[student_id] EXCEPT ![field] = new_value])
                 ELSE d.students,
               activity_logs |-> Append(d.activity_logs,
                                        Activity(student_id,
                                                 <<"Updated", field>>))],
              TRUE)

\* a slip: the activities of the student outlive the row
delete_student_keeping_logs(d, student_id, fault) ==
  IF fault THEN Stored(d, FALSE)
  ELSE Stored([students |-> [id \in DOMAIN d.students \ {student_id} |->
                               d.students[id]],
               activity_logs |-> d.activity_logs],
              TRUE)

delete_student(d, student_id, fault) ==
  IF fault THEN Stored(d, FALSE)
  ELSE LET Others(l) == l.student_id # student_id
       IN Stored([students |-> [id \in DOMAIN d.students \ {student_id} |->
                                  d.students[id]],
                  activity_logs |-> SelectSeq(d.activity_logs, Others)],
                 TRUE)

\* the rows of students, as a set
list_students(d) == {d.students[id] : id \in DOMAIN d.students}

\* round(n / d, 2), in hundredths
Round2(n, d) ==
  LET q == (n * 100) \div d
      r == (n * 100) % d
  IN IF 2 * r > d \/ (2 * r = d /\ q % 2 = 1) THEN q + 1 ELSE q

\* DatabaseManager.get_campus_analytics; every row and every activity of
\* the tables is younger than seven days; activity_rate in hundredths
campus_analytics(d) ==
  LET total_students == Cardinality(DOMAIN d.students)
      departments == {d.students[id].department : id \in DOMAIN d.students}
      active_students ==
        Cardinality({d.activity_logs[i].student_id :
                       i \in 1..Len(d.activity_logs)})
  IN [total_students |-> total_students,
      department_breakdown |->
        [dep \in departments |->
           Cardinality({id \in DOMAIN d.students :
                          d.students[id].department = dep})],
      recent_enrollments |-> total_students,
      active_last_7_days |-> active_students,
      activity_rate |->
        Round2(active_students * 100,
               IF total_students > 1 THEN total_students ELSE 1)]

\* ------------------------------------------------------------ the tools
\* a call of the email service: which notification, to whom, how it went
Mail(kind, student_id, recipient, outcome) ==
  [kind |-> kind, student_id |-> student_id, recipient |-> recipient,
   outcome |-> outcome]

\* what a call of a tool leaves: the tables, the dict it returns (as
\* json.dumps gets it) and the notifications it attempted
ToolOutput(d, returned, mails) ==
  [db |-> d, result |-> returned, mails |-> mails]

\* {"error": f"Failed to ...: {str(e)}"}
ErrorResult(what) == [error |-> what]

\* {"success": False, "message": f"Student with ID {student_id} not found"}
NotFound == [success |-> FALSE, message |-> "not found"]

\* a slip: a notification that raises fails the tool
add_student_tool_strict(d, args, env) ==
  LET added == add_student(d, args.student_id, args.name, args.department,
                           args.email, env.storage = "write_error")
  IN IF added.success
     THEN ToolOutput(added.db,
                     IF env.mail = "raise"
                     THEN [success |-> FALSE,
                           message |-> "added but email failed"]
                     ELSE [success |-> TRUE, message |-> "added successfully",
                           email_sent |-> (env.mail = "sent"),
                           email_status |-> env.mail],
                     <<Mail("welcome", args.student_id, args.email,
                            env.mail)>>)
     ELSE ToolOutput(d, [success |-> FALSE, message |-> "Failed to add student"],
                     <<>>)

add_student_tool(d, args, env) ==
  LET added == add_student(d, args.student_id, args.name, args.department,
                           args.email, env.storage = "write_error")
  IN IF added.success
     THEN ToolOutput(added.db,
                     IF env.mail = "raise"
                     THEN [success |-> TRUE,
                           message |-> "added but email failed"]
                     ELSE [success |-> TRUE, message |-> "added successfully",
                           email_sent |-> (env.mail = "sent"),
                           email_status |-> env.mail],
                     <<Mail("welcome", args.student_id, args.email,
                            env.mail)>>)
     ELSE ToolOutput(d, [success |-> FALSE, message |-> "Failed to add student"],
                     <<>>)

get_student_info(d, args, env) ==
  IF env.storage = "read_error"
  THEN ToolOutput(d, ErrorResult("Failed to get student"), <<>>)
  ELSE LET student == get_student(d, args.student_id)
       IN IF student # <<>>
          THEN ToolOutput(d, [success |-> TRUE, student |-> student[1]], <<>>)
          ELSE ToolOutput(d, NotFound, <<>>)

\* a slip: the update is tried without looking for the student
update_student_info_unchecked(d, args, env) ==
  IF env.storage = "read_error"
  THEN ToolOutput(d, ErrorResult("Failed to update student"), <<>>)
  ELSE LET updated == update_student(d, args.student_id, args.field,
                                     args.new_value,
                                     env.storage = "write_error")
       IN IF updated.success
          THEN ToolOutput(updated.db,
                          [success |-> TRUE, message |-> "updated",
                           email_sent |-> (env.mail = "sent")],
                          <<Mail("profile_update", args.student_id,
                                 args.student_id, env.mail)>>)
          ELSE ToolOutput(d, [success |-> FALSE,
                              message |-> "Failed to update. Invalid field name."],
                          <<>>)

update_student_info(d, args, env) ==
  IF env.storage = "read_error"
  THEN ToolOutput(d, ErrorResult("Failed to update student"), <<>>)
  ELSE LET student == get_student(d, args.student_id)
           updated == update_student(d, args.student_id, args.field,
                                     args.new_value,
                                     env.storage = "write_error")
       IN IF student = <<>> THEN ToolOutput(d, NotFound, <<>>)
          ELSE IF updated.success
          THEN ToolOutput(updated.db,
                          IF env.mail = "raise"
                          THEN [success |-> TRUE,
                                message |-> "updated but notification failed"]
                          ELSE [success |-> TRUE, message |-> "updated",
                                email_sent |-> (env.mail = "sent")],
                          <<Mail("profile_update", args.student_id,
                                 student[1].email, env.mail)>>)
          ELSE ToolOutput(d, [success |-> FALSE,
                              message |-> "Failed to update. Invalid field name."],
                          <<>>)

\* a slip: a deletion is notified like an update
delete_student_tool_notifying(d, args, env) ==
  IF env.storage = "read_error"
  THEN ToolOutput(d, ErrorResult("Failed to delete student"), <<>>)
  ELSE LET student == get_student(d, args.student_id)
           deleted == delete_student(d, args.student_id,
                                     env.storage = "write_error")
       IN IF student = <<>> THEN ToolOutput(d, NotFound, <<>>)
          ELSE IF deleted.success
          THEN ToolOutput(deleted.db,
                          [success |-> TRUE, message |-> "deleted",
                           email_sent |-> (env.mail = "sent")],
                          <<Mail("deleted", args.student_id, student[1].email,
                                 env.mail)>>)
          ELSE ToolOutput(d, [success |-> FALSE,
                              message |-> "Failed to delete student"], <<>>)

delete_student_tool(d, args, env) ==
  IF env.storage = "read_error"
  THEN ToolOutput(d, ErrorResult("Failed to delete student"), <<>>)
  ELSE LET student == get_student(d, args.student_id)
           deleted == delete_student(d, args.student_id,
                                     env.storage = "write_error")
       IN IF student = <<>> THEN ToolOutput(d, NotFound, <<>>)
          ELSE IF deleted.success
          THEN ToolOutput(deleted.db,
                          [success |-> TRUE,
                           message |-> "deleted (No email notification sent)",
                           email_sent |-> FALSE],
                          <<>>)
          ELSE ToolOutput(d, [success |-> FALSE,
                              message |-> "Failed to delete student"], <<>>)

list_all_students(d, args, env) ==
  IF env.storage = "read_error"
  THEN ToolOutput(d, ErrorResult("Failed to list students"), <<>>)
  ELSE ToolOutput(d, [success |-> TRUE,
                      total_count |-> Cardinality(list_students(d)),
                      students |-> list_students(d)], <<>>)

get_campus_analytics(d, args, env) ==
  IF env.storage = "read_error"
  THEN ToolOutput(d, ErrorResult("Failed to get analytics"), <<>>)
  ELSE ToolOutput(d, [success |-> TRUE,
                      analytics |-> campus_analytics(d),
                      timestamp |-> "now"], <<>>)

\* tool.invoke(tool_args) for the tool that carries the name
RunTool(name, args, d, env) ==
  CASE name = "add_student_tool" -> add_student_tool(d, args, env)
    [] name = "get_student_info" -> get_student_info(d, args, env)
    [] name = "update_student_info" -> update_student_info(d, args, env)
    [] name = "delete_student_tool" -> delete_student_tool(d, args, env)
    [] name = "list_all_students" -> list_all_students(d, args, env)
    [] name = "get_campus_analytics" -> get_campus_analytics(d, args, env)

\* ---------------------------------------------------------- the graph
\* a slip: a response with a single tool call is taken for a final answer
should_continue_single(messages) ==
  IF Len(Last(messages).tool_calls) > 1 THEN "tools" ELSE "END"

should_continue(messages) ==
  IF Last(messages).tool_calls # <<>> THEN "tools" ELSE "END"

\* a slip: the keywords of the admin tasks are looked for first
classify_query_admin_first(query) ==
  IF ContainsAny(query, admin_keywords) THEN "campus_admin"
  ELSE IF ContainsAny(query, nust_keywords) THEN "nust_info"
  ELSE "general"

classify_query(query) ==
  IF ContainsAny(query, nust_keywords) THEN "nust_info"
  ELSE IF ContainsAny(query, admin_keywords) THEN "campus_admin"
  ELSE "general"

\* a slip: every class of query is sent to the node "agent"
AfterClassify_agent(operation_type) == "agent"

\* the conditional edge out of "classify"
AfterClassify(operation_type) ==
  IF operation_type = "nust_info" THEN "nust_handler" ELSE "agent"

\* a slip: the exception of the LLM is dropped, not worded
ModelMessage_silent(out) == AIMessage(out.content, out.tool_calls)

\* the message call_model adds for an outcome of the LLM
ModelMessage(out) ==
  IF out.raises THEN AIMessage(ModelErrorText(out.detail), <<>>)
  ELSE AIMessage(out.content, out.tool_calls)

\* the final_answer handle_nust_query sets for an outcome of the LLM
NustAnswer(out) ==
  IF out.raises THEN NustErrorText(out.detail) ELSE out.content

\* json.dumps of the dict a tool returns: the document it spells
ToolJson(returned) == <<returned>>

\* the ToolMessage of one tool call: out is what tool.invoke does ("ok":
\* the tool runs and returns, "raise": it raises before the tool runs); a
\* name no tool carries leaves the inner loop without a message
ToolResponse(call, out, detail, returned) ==
  IF call.name \notin ToolNames THEN <<>>
  ELSE IF out = "raise"
       THEN <<ToolMessage(ToolErrorText(call.name, detail), call.id)>>
       ELSE <<[ToolMessage(<<"{", "}">>, call.id)
                 EXCEPT !.json = ToolJson(returned)]>>

\* one tool call as the log of the turn keeps it: what tool.invoke did,
\* how the storage behaved, the dict returned (<<>> when none was), the
\* notifications attempted, and the tables as the call found and left them
Called(call, out, env, ran, d) ==
  [name |-> call.name, id |-> call.id, args |-> call.args, out |-> out,
   storage |-> env.storage,
   returned |-> IF out = "ok" THEN <<ran.result>> ELSE <<>>,
   mails |-> ran.mails, found |-> d, left |-> ran.db]

\* a slip: the ToolMessages are collected last call first
RECURSIVE ToolRound_reversed(_, _, _, _, _)
ToolRound_reversed(calls, outs, envs, d, detail) ==
  IF calls = <<>> THEN [messages |-> <<>>, db |-> d, log |-> <<>>]
  ELSE LET call == Head(calls)
           out == Head(outs)
           env == Head(envs)
           ran == IF out = "ok" THEN RunTool(call.name, call.args, d, env)
                  ELSE ToolOutput(d, <<>>, <<>>)
           rest == ToolRound_reversed(Tail(calls), Tail(outs), Tail(envs),
                                      ran.db, detail)
       IN [messages |-> rest.messages
                        \o ToolResponse(call, out, detail, ran.result),
           db |-> rest.db,
           log |-> <<Called(call, out, env, ran, d)>> \o rest.log]

\* the for loop of call_tools over the tool calls, from the tables d:
\* the ToolMessages, the tables it leaves, and the log of the calls
RECURSIVE ToolRound(_, _, _, _, _)
ToolRound(calls, outs, envs, d, detail) ==
  IF calls = <<>> THEN [messages |-> <<>>, db |-> d, log |-> <<>>]
  ELSE LET call == Head(calls)
           out == Head(outs)
           env == Head(envs)
           ran == IF out = "ok" THEN RunTool(call.name, call.args, d, env)
                  ELSE ToolOutput(d, <<>>, <<>>)
           rest == ToolRound(Tail(calls), Tail(outs), Tail(envs), ran.db,
                             detail)
       IN [messages |-> ToolResponse(call, out, detail, ran.result)
                        \o rest.messages,
           db |-> rest.db,
           log |-> <<Called(call, out, env, ran, d)>> \o rest.log]

\* the content of the last AIMessage, or the fixed sentence when there is none
RECURSIVE LastAIContent(_)
LastAIContent(messages) ==
  IF messages = <<>> THEN SorryText
  ELSE IF Last(messages).type = "ai" THEN Last(messages).content
  ELSE LastAIContent(SubSeq(messages, 1, Len(messages) - 1))

\* the response chat() and stream_chat() read off the result of the graph
FinalResponse(st) ==
  IF Truthy(st.final_answer) THEN st.final_answer
  ELSE LastAIContent(st.messages)

\* ------------------------------------------------------------ profiles
\* What a specification lets the environment do: how many turns, which
\* utterances and answers, how many tool rounds the LLM may ask for and how
\* many calls per response.  With capped = FALSE the LLM may ask for tools
\* without end, and the turn is kept finite-state by remembering only the
\* last response and its results.
GraphProfile ==
  [turns |-> 1, utterances |-> Utterances, texts |-> Texts,
   rounds |-> MaxRounds, calls |-> MaxCalls, capped |-> TRUE, frags |-> 0,
   asked |-> {Asked(n, NoArgs) : n \in CalledNames}, envs |-> {QuietEnv}]

Keep(p, s, n) ==
  IF p.capped \/ Len(s) <= n THEN s ELSE SubSeq(s, Len(s) - n + 1, Len(s))

\* the outcomes of one invocation; tools: whether the tools are bound
LlmOutcomes(p, tools) ==
  {LlmRaise(d) : d \in Details}
  \cup {LlmAnswer(t, <<>>) : t \in p.texts}
  \cup (IF tools /\ (~p.capped \/ Len(toolLog) < p.rounds)
        THEN {LlmAnswer(<<>>, ToolCalls(as, Len(toolLog), p.calls)) :
                as \in SeqsUpTo(p.asked, p.calls) \ {<<>>}}
        ELSE {})


\* ------------------------------------------------------------- chat()
\* lines 602-625: the session is found or made, and the graph is entered
ChatEnter(message, sid, drawn, now) ==
  LET new == IF sid = 0 THEN drawn + 1 ELSE sid
  IN /\ uuids' = (IF sid = 0 THEN drawn + 1 ELSE drawn)
     /\ session_id' = new
     /\ sessions' = Touch(create_session(sessions, "default_user", new, now),
                          new, now)
     /\ state' = [messages |-> <<HumanMessage(message)>>, query |-> message,
                  operation_type |-> "", final_answer |-> <<>>]
     /\ runner' = "chat"
     /\ pc' = "classify"

\* a new turn: what the last turn left for its caller is gone
NewTurn ==
  /\ turns' = turns + 1
  /\ clock' = clock + 1
  /\ raised' = <<>>
  /\ llmLog' = <<>>
  /\ toolLog' = <<>>
  /\ webLog' = <<>>
  /\ result' = NoResult
  /\ stream' = <<>>
  /\ events' = <<>>
  /\ before' = sessions

MayStart(p) == pc \in {"idle", "done"} /\ turns < p.turns

\* the ids a caller may give: none, one of its own making, one it was
\* handed or has read
SuppliedIds == {0} \cup ClientIds \cup DOMAIN sessions \cup DOMAIN observed

ChatBegin(p) ==
  /\ MayStart(p)
  /\ \E m \in p.utterances, sid \in SuppliedIds :
       /\ request' = [message |-> m, session_id |-> sid]
       /\ ChatEnter(m, sid, uuids, clock + 1)
  /\ api' = "chat"
  /\ NewTurn
  /\ endpoint' = NoEndpoint
  /\ UNCHANGED <<dbLog, db, others>>

Classify ==
  /\ pc = "classify"
  /\ LET operation_type == classify_query(state.query)
     IN /\ state' = [state EXCEPT !.operation_type = operation_type]
        /\ pc' = AfterClassify(operation_type)
  /\ UNCHANGED <<sessions, uuids, clock, turns, api, request, session_id,
                 raised, llmLog, toolLog, webLog, result, runner, stream,
                 events, endpoint, dbLog, before, db, others>>

NustHandler(p) ==
  /\ pc = "nust_handler"
  /\ \E web \in WebOutcomes, d \in Details, out \in LlmOutcomes(p, FALSE) :
       LET searched == search(state.query, web, d)
       IN /\ webLog' = Append(webLog, searched)
          /\ llmLog' = Append(llmLog,
                       Invoked(out, <<HumanMessage(
                                        nust_prompt(state.query,
                                                    searched.results))>>))
          /\ state' = [state EXCEPT !.final_answer = NustAnswer(out)]
  /\ pc' = "END"
  /\ UNCHANGED <<sessions, uuids, clock, turns, api, request, session_id,
                 raised, toolLog, result, runner, stream, events, endpoint,
                 dbLog, before, db, others>>

\* the node "agent" and the conditional edge that leaves it
CallModel(p) ==
  /\ pc = "agent"
  /\ \E out \in LlmOutcomes(p, TRUE) :
       LET messages == Keep(p, Append(state.messages, ModelMessage(out)),
                            p.calls + 1)
       IN /\ llmLog' = Keep(p, Append(llmLog,
                                Invoked(out, full_messages(state.messages))),
                          1)
          /\ state' = [state EXCEPT !.messages = messages]
          /\ pc' = should_continue(messages)
  /\ UNCHANGED <<sessions, uuids, clock, turns, api, request, session_id,
                 raised, toolLog, webLog, result, runner, stream, events,
                 endpoint, dbLog, before, db, others>>

\* what the tools of a round do: a tool that is found returns or raises
ToolOutcomes(calls) ==
  {outs \in [1..Len(calls) -> {"ok", "raise", "none"}] :
     \A i \in 1..Len(calls) :
       (outs[i] = "none") <=> (calls[i].name \notin ToolNames)}

\* what the collaborators do during the calls of a round; they are not
\* reached by a call whose tool does not run
ToolEnvs(p, outs) ==
  {envs \in [1..Len(outs) -> p.envs \cup {QuietEnv}] :
     \A i \in 1..Len(outs) : outs[i] # "ok" => envs[i] = QuietEnv}

\* the node "tools", and the edge back to "agent"
CallTools(p) ==
  /\ pc = "tools"
  /\ LET calls == Last(state.messages).tool_calls
     IN \E outs \in ToolOutcomes(calls), d \in Details :
          \E envs \in ToolEnvs(p, outs) :
            LET round == ToolRound(calls, outs, envs, db, d)
            IN /\ state' = [state EXCEPT !.messages =
                              Keep(p, @ \o round.messages, p.calls + 1)]
               /\ toolLog' = Keep(p, Append(toolLog, round.log), 1)
               /\ db' = round.db
  /\ pc' = "agent"
  /\ UNCHANGED <<sessions, uuids, clock, turns, api, request, session_id,
                 raised, llmLog, webLog, result, runner, stream, events,
                 endpoint, dbLog, before, others>>

\* self.graph.invoke(initial_state) raises: what a node leaves uncaught
\* (retrieve_context in handle_nust_query, the read of tool_calls in
\* call_tools) or the graph runtime itself
GraphRaise ==
  /\ pc \in {"classify", "nust_handler", "agent", "tools"}
  /\ \E d \in Details : raised' = <<d>>
  /\ pc' = "raised"
  /\ UNCHANGED <<sessions, uuids, clock, turns, api, request, session_id,
                 state, llmLog, toolLog, webLog, result, runner, stream,
                 events, endpoint, dbLog, before, db, others>>

\* where chat() hands its result: its caller, or event_generator()
AfterChat == IF api = "chat" THEN "done" ELSE "chat_returned"

\* lines 630-652
ChatEnd ==
  /\ pc = "END"
  /\ runner = "chat"
  /\ LET response_content == FinalResponse(state)
     IN /\ sessions' = Extend(sessions, session_id,
                              <<Entry("user", request.message),
                                Entry("assistant", response_content)>>)
        /\ result' = [response |-> response_content,
                      session_id |-> session_id, returned |-> TRUE]
  /\ pc' = AfterChat
  /\ UNCHANGED <<uuids, clock, turns, api, request, session_id, state,
                 raised, llmLog, toolLog, webLog, runner, stream, events,
                 endpoint, dbLog, before, db, others>>

\* lines 654-660
ChatExcept ==
  /\ pc = "raised"
  /\ runner = "chat"
  /\ result' = [response |-> RequestErrorText(raised[1]),
                session_id |-> (IF session_id # 0 THEN session_id
                                ELSE uuids + 1),
                returned |-> TRUE]
  /\ uuids' = (IF session_id # 0 THEN uuids ELSE uuids + 1)
  /\ pc' = AfterChat
  /\ UNCHANGED <<sessions, clock, turns, api, request, session_id, state,
                 raised, llmLog, toolLog, webLog, runner, stream, events,
                 endpoint, dbLog, before, db, others>>

\* One turn through chat().
GraphNext ==
  \/ ChatBegin(GraphProfile)
  \/ Classify
  \/ NustHandler(GraphProfile)
  \/ CallModel(GraphProfile)
  \/ CallTools(GraphProfile)
  \/ GraphRaise
  \/ ChatEnd
  \/ ChatExcept

GraphSpec == Init /\ [][GraphNext]_vars

\* ------------------------------------------------------ stream_chat()
\* a progress value is the fraction n/d (of 100)
Progress(n, d) == [n |-> n, d |-> d]

Leq(p, q) == p.n * q.d <= q.n * p.d

Is100(p) == p.n = 100 * p.d

Min(a, b) == IF a <= b THEN a ELSE b

\* a yielded dict; a key the dict does not carry reads FALSE
Snapshot(response, sid, progress, complete, error, streaming) ==
  [response |-> response, session_id |-> sid, progress |-> progress,
   complete |-> complete, error |-> error, streaming |-> streaming]

\* current_text after the i-th word: every word but the last of the text
\* is followed by a space
WordsText(words, i) ==
  Concat([j \in 1..i |-> words[j] \o (IF j < Len(words) THEN <<" ">> ELSE <<>>)])

\* lines 716-733: the finished text, replayed word by word
WordReplay(full_content, sid) ==
  LET words == Split(full_content)
  IN [i \in 1..Len(words) |->
        Snapshot(WordsText(words, i), sid, Progress(100 * i, Len(words)),
                 i = Len(words), FALSE, FALSE)]

\* a slip: the last snapshot of an error is not marked complete
ErrorReplay_open(text, sid) ==
  [i \in 1..Len(text) |->
     Snapshot(Prefix(text, i), sid, Progress(100 * i, Len(text)),
              FALSE, TRUE, FALSE)]

\* lines 740-753, 825-838, 845-858: the error text, replayed by character
ErrorReplay(text, sid) ==
  [i \in 1..Len(text) |->
     Snapshot(Prefix(text, i), sid, Progress(100 * i, Len(text)),
              i = Len(text), TRUE, FALSE)]

BoundaryChars == {" ", "\n", ".", "!", "?", ";", ","}

\* the (1-based) positions at which the replay by character yields: a
\* boundary character, every every-th position from the first, the last
YieldsAt(text, i, every) ==
  text[i] \in BoundaryChars \/ (i - 1) % every = 0 \/ i = Len(text)

RECURSIVE CharReplayFrom(_, _, _, _)
CharReplayFrom(text, sid, i, every) ==
  IF i > Len(text) THEN <<>>
  ELSE (IF YieldsAt(text, i, every)
        THEN <<Snapshot(Prefix(text, i), sid, Progress(100 * i, Len(text)),
                        i = Len(text), FALSE, FALSE)>>
        ELSE <<>>) \o CharReplayFrom(text, sid, i + 1, every)

\* lines 799-818: the text of ainvoke, replayed by character
CharReplay(text, sid) == CharReplayFrom(text, sid, 1, 2)

\* lines 770-786: a snapshot per chunk that has content
RECURSIVE NativeFrom(_, _, _, _)
NativeFrom(frags, sid, full_content, chunk_count) ==
  IF frags = <<>> THEN <<>>
  ELSE IF Truthy(Head(frags))
       THEN <<Snapshot(full_content \o Head(frags), sid,
                       Progress(Min(90, (chunk_count + 1) * 5), 1),
                       FALSE, FALSE, TRUE)>>
            \o NativeFrom(Tail(frags), sid, full_content \o Head(frags),
                          chunk_count + 1)
       ELSE NativeFrom(Tail(frags), sid, full_content, chunk_count)

\* lines 757-858: what the branch of the general queries yields and the
\* full_content it leaves, for an outcome of the LLM
GeneralRun(out, sid) ==
  IF out.raises
  THEN [snapshots |->
          (IF out.kind = "astream"
           THEN NativeFrom(out.frags, sid, <<>>, 0) ELSE <<>>)
          \o ErrorReplay(ApologyText(out.detail), sid),
        full_content |-> ApologyText(out.detail)]
  ELSE IF out.kind = "astream"
  THEN [snapshots |->
          Append(NativeFrom(out.frags, sid, <<>>, 0),
                 Snapshot(Concat(out.frags), sid, Progress(100, 1),
                          TRUE, FALSE, FALSE)),
        full_content |-> Concat(out.frags)]
  ELSE [snapshots |-> CharReplay(out.content, sid),
        full_content |-> out.content]

\* lines 706-753: what the branch of the admin tasks yields once the graph
\* returned (exc = <<>>) or raised (exc = <<str(e)>>)
AdminRun(st, exc, sid) ==
  IF exc # <<>>
  THEN [snapshots |-> ErrorReplay(RequestErrorText(exc[1]), sid),
        full_content |-> RequestErrorText(exc[1])]
  ELSE [snapshots |-> WordReplay(FinalResponse(st), sid),
        full_content |-> FinalResponse(st)]

\* lines 860-866
AddResponse(store, sid, full_content) ==
  IF Truthy(full_content)
  THEN Extend(store, sid, <<Entry("assistant", full_content)>>)
  ELSE store

\* the keywords _get_context looks for
context_keywords == {"nust", "national university", "sciences technology"}

\* the documents retrieve_context found, joined; "" off the NUST keywords
get_context(message) ==
  IF ContainsAny(message, context_keywords) THEN <<"rag_docs">> ELSE <<>>

\* the messages the branch of the general queries gives the LLM
GeneralInput(out, message, history) ==
  IF out.kind = "context" THEN <<>>
  ELSE <<HumanMessage(build_prompt(message, get_context(message), history))>>

\* the outcomes of the LLM on the branch of the general queries;
\* retrieve_context is reached, and may raise, for a NUST utterance only
GeneralOutcomes(p, message, kinds) ==
  (IF ContainsAny(message, context_keywords)
   THEN {ContextRaise(d) : d \in Details} ELSE {})
  \cup (IF "astream" \in kinds
        THEN {LlmStream(fs, r, d) :
                fs \in SeqsUpTo(FragTexts, p.frags), r \in BOOLEAN,
                d \in Details}
        ELSE {})
  \cup (IF "invoke" \in kinds
        THEN {LlmRaise(d) : d \in Details}
             \cup {LlmAnswer(t, <<>>) : t \in p.texts}
        ELSE {})

\* lines 664-703: the session is found or made, the user entry is added,
\* and the turn goes to the graph or to the LLM
StreamBegin(p) ==
  /\ MayStart(p)
  /\ \E m \in p.utterances, sid \in SuppliedIds :
       LET new == IF sid = 0 THEN uuids + 1 ELSE sid
           now == clock + 1
       IN /\ request' = [message |-> m, session_id |-> sid]
          /\ uuids' = (IF sid = 0 THEN uuids + 1 ELSE uuids)
          /\ session_id' = new
          /\ sessions' =
               Extend(Touch(create_session(sessions, "default_user", new,
                                           now), new, now),
                      new, <<Entry("user", m)>>)
          /\ IF ContainsAny(m, admin_keywords)
             THEN /\ state' = [messages |-> <<HumanMessage(m)>>,
                               query |-> m,
                               operation_type |-> "campus_admin",
                               final_answer |-> <<>>]
                  /\ runner' = "stream_chat"
                  /\ pc' = "classify"
             ELSE /\ state' = NoState
                  /\ runner' = "none"
                  /\ pc' = "stream_general"
  /\ api' = "stream_chat"
  /\ NewTurn
  /\ endpoint' = NoEndpoint
  /\ UNCHANGED <<dbLog, db, others>>

\* lines 705-753 and 860-866, once graph.invoke returned or raised
StreamAdminEnd ==
  /\ pc \in {"END", "raised"}
  /\ runner = "stream_chat"
  /\ LET run == AdminRun(state, IF pc = "raised" THEN raised ELSE <<>>,
                         session_id)
     IN /\ stream' = run.snapshots
        /\ sessions' = AddResponse(sessions, session_id, run.full_content)
  /\ pc' = "done"
  /\ UNCHANGED <<uuids, clock, turns, api, request, session_id, state,
                 raised, llmLog, toolLog, webLog, result, runner, events,
                 endpoint, dbLog, before, db, others>>

\* lines 756-866
StreamGeneral(p) ==
  /\ pc = "stream_general"
  /\ \E out \in GeneralOutcomes(p, request.message, {"astream", "invoke"}) :
       LET run == GeneralRun(out, session_id)
           history == sessions[session_id].conversation_history
       IN /\ llmLog' = <<Invoked(out, GeneralInput(out, request.message,
                                                   history))>>
          /\ stream' = run.snapshots
          /\ sessions' = AddResponse(sessions, session_id, run.full_content)
  /\ pc' = "done"
  /\ UNCHANGED <<uuids, clock, turns, api, request, session_id, state,
                 raised, toolLog, webLog, result, runner, events, endpoint,
                 dbLog, before, db, others>>

\* ------------------------------------------- POST /chat/stream (main.py)
\* a yielded event; a key its data does not carry reads FALSE
Event(kind, response, sid, progress, complete, error) ==
  [event |-> kind, response |-> response, session_id |-> sid,
   progress |-> progress, complete |-> complete, error |-> error]

\* db_manager.save_message(session_id, current_user["id"], type, content)
SavedBy(log, sid, user_id, message_type, content) ==
  Append(log, [session_id |-> sid, user_id |-> user_id,
               message_type |-> message_type, content |-> content])

Saved(log, sid, message_type, content) ==
  SavedBy(log, sid, "current_user", message_type, content)

\* lines 311-335: the response of chat(), replayed word by word
WordEvents(full_response, sid) ==
  LET words == Split(full_response)
  IN [i \in 1..Len(words) |->
        Event("message", WordsText(words, i), sid,
              Progress(100 * i, Len(words)), FALSE, FALSE)]

RECURSIVE CharEventsFrom(_, _, _)
CharEventsFrom(text, sid, i) ==
  IF i > Len(text) THEN <<>>
  ELSE (IF YieldsAt(text, i, 3)
        THEN <<Event("message", Prefix(text, i), sid,
                     Progress(100 * i, Len(text)), FALSE, FALSE)>>
        ELSE <<>>) \o CharEventsFrom(text, sid, i + 1)

\* lines 397-417: the response of chat(), replayed by character
CharEvents(full_response, sid) == CharEventsFrom(full_response, sid, 1)

\* lines 420-435: the error text, replayed by character
ErrorEvents(text, sid) ==
  [i \in 1..Len(text) |->
     Event("message", Prefix(text, i), sid, Progress(100 * i, Len(text)),
           FALSE, TRUE)]

HasBoundary(text) == \E i \in 1..Len(text) : text[i] \in BoundaryChars

\* lines 357-390: an event per chunk that has content
RECURSIVE NativeEventsFrom(_, _, _, _, _)
NativeEventsFrom(frags, sid, full_response, word_buffer, word_count) ==
  IF frags = <<>> THEN <<>>
  ELSE IF ~Truthy(Head(frags))
  THEN NativeEventsFrom(Tail(frags), sid, full_response, word_buffer,
                        word_count)
  ELSE LET full == full_response \o Head(frags)
           buffer == word_buffer \o Head(frags)
           count == word_count + Len(Split(buffer))
       IN IF HasBoundary(buffer)
          THEN <<Event("message", full, sid,
                       Progress(Min(95, count * 2), 1), FALSE, FALSE)>>
               \o NativeEventsFrom(Tail(frags), sid, full, <<>>, count)
          ELSE <<Event("message", full, sid,
                       Progress(Min(190, Len(full)), 2), FALSE, FALSE)>>
               \o NativeEventsFrom(Tail(frags), sid, full, buffer,
                                   word_count)

\* lines 339-435: the events of the branch of the general queries and the
\* full_response it leaves
GeneralEvents(out, sid) ==
  IF out.raises
  THEN [events |-> NativeEventsFrom(out.frags, sid, <<>>, <<>>, 0)
                   \o ErrorEvents(ApologyText(out.detail), sid),
        full_response |-> ApologyText(out.detail)]
  ELSE [events |-> NativeEventsFrom(out.frags, sid, <<>>, <<>>, 0),
        full_response |-> Concat(out.frags)]

\* lines 437-451: the AI message is saved and the completion is signalled
Completion(full_response, sid) ==
  Event("complete", full_response, sid, Progress(100, 1), TRUE, FALSE)

SavedResponse(log, sid, full_response) ==
  IF sid # 0 /\ Truthy(full_response)
  THEN Saved(log, sid, "ai", full_response) ELSE log

\* lines 293-307, 339-351, 393: the user message is saved, the session id
\* is taken or drawn, and the turn goes to chat() or to llm.astream
EndpointBegin(p) ==
  /\ MayStart(p)
  /\ \E m \in p.utterances, sid \in SuppliedIds, astream \in BOOLEAN :
       LET drawn == IF sid = 0 THEN uuids + 1 ELSE uuids
           local == IF sid = 0 THEN uuids + 1 ELSE sid
           admin == ContainsAny(m, admin_keywords)
       IN /\ request' = [message |-> m, session_id |-> sid]
          /\ dbLog' = (IF sid # 0 THEN Saved(dbLog, sid, "user", m)
                       ELSE dbLog)
          /\ admin => astream    \* hasattr is not asked on this branch
          /\ endpoint' = [session_id |-> local, full_response |-> <<>>,
                          branch |-> IF admin THEN "admin"
                                     ELSE IF astream THEN "astream"
                                     ELSE "fallback",
                          user_id |-> "current_user"]
          /\ IF admin \/ ~astream
             THEN ChatEnter(m, sid, drawn, clock + 1)
             ELSE /\ uuids' = drawn
                  /\ pc' = "endpoint_general"
                  /\ runner' = "none"
                  /\ state' = NoState
                  /\ UNCHANGED <<sessions, session_id>>
  /\ api' = "stream_endpoint"
  /\ NewTurn
  /\ UNCHANGED <<db, others>>

\* lines 308-335 and 394-451, once chat() returned
EndpointAfterChat ==
  /\ pc = "chat_returned"
  /\ LET full_response == result.response
         sid == result.session_id
     IN /\ endpoint' = [endpoint EXCEPT !.session_id = sid,
                                        !.full_response = full_response]
        /\ events' =
             Append(IF endpoint.branch = "admin"
                    THEN WordEvents(full_response, sid)
                    ELSE CharEvents(full_response, sid),
                    Completion(full_response, sid))
        /\ dbLog' = SavedResponse(dbLog, sid, full_response)
  /\ pc' = "done"
  /\ UNCHANGED <<sessions, uuids, clock, turns, api, request, session_id,
                 state, raised, llmLog, toolLog, webLog, result, runner,
                 stream, before, db, others>>

\* lines 452-458: the event of the outer handler; its data is
\* {'error': str(e)} and nothing else
ErrorEvent(detail) ==
  Event("error", <<>>, 0, Progress(0, 1), FALSE, TRUE)

\* lines 308-335 and 452-458: on the admin branch, which no inner handler
\* covers, an exception (full_response.split() on a content that is not a
\* str, json.dumps) ends the word events after the k-th
EndpointExcept ==
  /\ pc = "chat_returned"
  /\ endpoint.branch = "admin"
  /\ LET full_response == result.response
         sid == result.session_id
         replay == WordEvents(full_response, sid)
     IN /\ endpoint' = [endpoint EXCEPT !.session_id = sid,
                                        !.full_response = full_response]
        /\ \E k \in 0..Len(replay), d \in Details :
             events' = Append(SubSeq(replay, 1, k), ErrorEvent(d))
  /\ pc' = "done"
  /\ UNCHANGED <<sessions, uuids, clock, turns, api, request, session_id,
                 state, raised, llmLog, toolLog, webLog, result, runner,
                 stream, dbLog, before, db, others>>

\* lines 339-390 and 419-451
EndpointGeneral(p) ==
  /\ pc = "endpoint_general"
  /\ \E out \in GeneralOutcomes(p, request.message, {"astream"}) :
       LET run == GeneralEvents(out, endpoint.session_id)
           history == IF request.session_id \in DOMAIN sessions
                      THEN sessions[request.session_id].conversation_history
                      ELSE <<>>
       IN /\ llmLog' = <<Invoked(out, GeneralInput(out, request.message,
                                                   history))>>
          /\ endpoint' = [endpoint EXCEPT !.full_response = run.full_response]
          /\ events' = Append(run.events,
                              Completion(run.full_response,
                                         endpoint.session_id))
          /\ dbLog' = SavedResponse(dbLog, endpoint.session_id,
                                    run.full_response)
  /\ pc' = "done"
  /\ UNCHANGED <<sessions, uuids, clock, turns, api, request, session_id,
                 state, raised, toolLog, webLog, result, runner, stream,
                 before, db, others>>

\* ------------------------------------------------- POST /chat (main.py)
\* the users that hold a token: the one who makes the sessions of POST
\* /sessions, and another
Callers == {"current_user", "other_user"}

\* lines 260-266: the user message is saved under the session id of the
\* request, if it has one, and chat() is entered
ChatEndpointBegin(p) ==
  /\ MayStart(p)
  /\ \E m \in p.utterances, sid \in SuppliedIds, user \in Callers :
       /\ request' = [message |-> m, session_id |-> sid]
       /\ dbLog' = (IF sid # 0 THEN SavedBy(dbLog, sid, user, "user", m)
                    ELSE dbLog)
       /\ endpoint' = [NoEndpoint EXCEPT !.branch = "chat",
                                         !.user_id = user]
       /\ ChatEnter(m, sid, uuids, clock + 1)
  /\ api' = "chat_endpoint"
  /\ NewTurn
  /\ UNCHANGED <<db, others>>

\* lines 268-276, once chat() returned: the response is saved under the
\* session id chat() gave back
ChatEndpointEnd ==
  /\ pc = "chat_returned"
  /\ api = "chat_endpoint"
  /\ dbLog' = (IF result.session_id # 0
               THEN SavedBy(dbLog, result.session_id, endpoint.user_id,
                            "ai", result.response)
               ELSE dbLog)
  /\ endpoint' = [endpoint EXCEPT !.session_id = result.session_id,
                                  !.full_response = result.response]
  /\ pc' = "done"
  /\ UNCHANGED <<sessions, uuids, clock, turns, api, request, session_id,
                 state, raised, llmLog, toolLog, webLog, result, runner,
                 stream, events, before, db, others>>

\* ------------------------------------------------------ specifications
\* One turn through stream_chat() or /chat/stream.
StreamProfile ==
  [turns |-> 1, utterances |-> Utterances, texts |-> Texts,
   rounds |-> 1, calls |-> 1, capped |-> TRUE, frags |-> MaxFrags,
   asked |-> {Asked(n, NoArgs) : n \in CalledNames}, envs |-> {QuietEnv}]

StreamNext ==
  \/ StreamBegin(StreamProfile)
  \/ EndpointBegin(StreamProfile)
  \/ Classify
  \/ NustHandler(StreamProfile)
  \/ CallModel(StreamProfile)
  \/ CallTools(StreamProfile)
  \/ GraphRaise
  \/ ChatEnd
  \/ ChatExcept
  \/ StreamAdminEnd
  \/ StreamGeneral(StreamProfile)
  \/ EndpointAfterChat
  \/ EndpointGeneral(StreamProfile)

StreamSpec == Init /\ [][StreamNext]_vars

\* One turn through /chat/stream, the outer handler of event_generator
\* included.
EndpointNext ==
  \/ EndpointBegin(StreamProfile)
  \/ Classify
  \/ NustHandler(StreamProfile)
  \/ CallModel(StreamProfile)
  \/ CallTools(StreamProfile)
  \/ GraphRaise
  \/ ChatEnd
  \/ ChatExcept
  \/ EndpointAfterChat
  \/ EndpointGeneral(StreamProfile)
  \/ EndpointExcept

EndpointSpec == Init /\ [][EndpointNext]_vars

\* ------------------------------------------- the DatabaseManager, directly
Departments == {"Computer Science", "Physics"}

\* db.add_student(student_id, name, department, email)
DbAdd ==
  /\ Len(db.activity_logs) < MaxLogs
  /\ \E id \in StudentIds, dep \in Departments, email \in Emails,
        fault \in BOOLEAN :
       db' = add_student(db, id, "New Name", dep, email, fault).db
  /\ UNCHANGED <<sessions, uuids, clock, turns, api, pc, request, session_id,
                 state, raised, llmLog, toolLog, webLog, result, runner,
                 stream, events, endpoint, dbLog, before, others>>

\* db.update_student(student_id, field, new_value)
DbUpdate ==
  /\ Len(db.activity_logs) < MaxLogs
  /\ \E id \in StudentIds, u \in Updates, fault \in BOOLEAN :
       db' = update_student(db, id, u[1], u[2], fault).db
  /\ UNCHANGED <<sessions, uuids, clock, turns, api, pc, request, session_id,
                 state, raised, llmLog, toolLog, webLog, result, runner,
                 stream, events, endpoint, dbLog, before, others>>

\* db.delete_student(student_id)
DbDelete ==
  /\ \E id \in StudentIds, fault \in BOOLEAN :
       db' = delete_student(db, id, fault).db
  /\ UNCHANGED <<sessions, uuids, clock, turns, api, pc, request, session_id,
                 state, raised, llmLog, toolLog, webLog, result, runner,
                 stream, events, endpoint, dbLog, before, others>>

\* db.get_campus_analytics(): the report, and the tables it was drawn from
DbAnalytics ==
  /\ analytics' = <<[store |-> db, report |-> campus_analytics(db)]>>
  /\ UNCHANGED <<sessions, uuids, clock, turns, api, pc, request, session_id,
                 state, raised, llmLog, toolLog, webLog, result, runner,
                 stream, events, endpoint, dbLog, before, db, tasks,
                 observed, rag, created>>

StoreNext ==
  \/ DbAdd
  \/ DbUpdate
  \/ DbDelete
  \/ DbAnalytics

StoreSpec == Init /\ [][StoreNext]_vars

\* ------------------------------------------------- the life of a session
\* POST /sessions (main.py 666-685): a uuid4 is drawn and the session is
\* made for the current user
CreateSession ==
  /\ pc \in {"idle", "done"}
  /\ uuids < MaxTurns
  /\ uuids' = uuids + 1
  /\ sessions' = create_session(sessions, "current_user", uuids + 1, clock)
  /\ UNCHANGED <<clock, turns, api, pc, request, session_id, state, raised,
                 llmLog, toolLog, webLog, result, runner, stream, events,
                 endpoint, dbLog, before, db, others>>

\* the user ids create_session is given: by chat(), by POST /sessions
UserIds == {"default_user", "current_user"}

\* agent.create_session(user_id, session_id), session_id 0 being None:
\* what it was given, the store it found and left, the id it returned
AgentCreateSession ==
  /\ pc \in {"idle", "done"}
  /\ \E user_id \in UserIds, sid \in SuppliedIds :
       LET new == IF sid = 0 THEN uuids + 1 ELSE sid
           left == create_session(sessions, user_id, new, clock)
       IN /\ sid = 0 => uuids < MaxTurns
          /\ uuids' = (IF sid = 0 THEN uuids + 1 ELSE uuids)
          /\ sessions' = left
          /\ created' = <<[user_id |-> user_id, session_id |-> sid,
                           found |-> sessions, left |-> left,
                           returned |-> new]>>
  /\ UNCHANGED <<clock, turns, api, pc, request, session_id, state, raised,
                 llmLog, toolLog, webLog, result, runner, stream, events,
                 endpoint, dbLog, before, db, tasks, observed, rag,
                 analytics>>

\* DELETE /sessions/{session_id} (main.py 738-767), for a session that
\* POST /sessions made: the row of the current user is there
DeleteSession ==
  /\ pc \in {"idle", "done"}
  /\ \E sid \in DOMAIN sessions :
       /\ sessions[sid].user_id = "current_user"
       /\ sessions' = [k \in DOMAIN sessions \ {sid} |-> sessions[k]]
  /\ UNCHANGED <<uuids, clock, turns, api, pc, request, session_id, state,
                 raised, llmLog, toolLog, webLog, result, runner, stream,
                 events, endpoint, dbLog, before, db, others>>

\* get_session_info(session_id), for a session that is there: the caller
\* reads its history
GetSessionInfo ==
  /\ pc \in {"idle", "done"}
  /\ Cardinality(DOMAIN observed) < MaxReads
  /\ \E sid \in DOMAIN sessions :
       observed' = Put(observed, sid, sessions[sid].conversation_history)
  /\ UNCHANGED <<sessions, uuids, clock, turns, api, pc, request, session_id,
                 state, raised, llmLog, toolLog, webLog, result, runner,
                 stream, events, endpoint, dbLog, before, db, tasks, rag,
                 analytics, created>>

LifeProfile ==
  [StreamProfile EXCEPT !.turns = MaxTurns,
                        !.utterances = {<<"List Students">>, <<"h", "i">>},
                        !.texts = {<<"a">>},
                        !.rounds = 0,
                        !.frags = 1]

\* Sessions made, talked to through chat() and stream_chat(), read and
\* deleted, one operation after another; the LLM asks for no tool.
LifeNext ==
  \/ CreateSession
  \/ DeleteSession
  \/ GetSessionInfo
  \/ ChatBegin(LifeProfile)
  \/ StreamBegin(LifeProfile)
  \/ Classify
  \/ CallModel(LifeProfile)
  \/ GraphRaise
  \/ ChatEnd
  \/ ChatExcept
  \/ StreamAdminEnd
  \/ StreamGeneral(LifeProfile)

LifeSpec == Init /\ [][LifeNext]_vars

SessionsProfile ==
  [LifeProfile EXCEPT !.turns = 2, !.utterances = {<<"h", "i">>}]

\* Sessions made by create_session and by the turns of chat()
SessionsNext ==
  \/ AgentCreateSession
  \/ ChatBegin(SessionsProfile)
  \/ Classify
  \/ CallModel(SessionsProfile)
  \/ ChatEnd

SessionsSpec == Init /\ [][SessionsNext]_vars

\* Requests to /chat by two users, on sessions that POST /sessions made
\* for the first of them and on sessions chat() makes
ChatApiNext ==
  \/ CreateSession
  \/ ChatEndpointBegin(SessionsProfile)
  \/ Classify
  \/ CallModel(SessionsProfile)
  \/ GraphRaise
  \/ ChatEnd
  \/ ChatExcept
  \/ ChatEndpointEnd

ChatApiSpec == Init /\ [][ChatApiNext]_vars

\* ------------------------------------------- coroutines on the event loop
\* chat() and stream_chat() are coroutines of one event loop: what lies
\* between two awaits runs without another coroutine in between.  chat()
\* awaits nothing; stream_chat() awaits asyncio.sleep after each snapshot
\* and the chunks of llm.astream (llm.ainvoke).
TaskProfile ==
  [StreamProfile EXCEPT !.utterances = {<<"List Students">>, <<"h", "i">>},
                        !.texts = {<<>>, <<"a">>},
                        !.frags = 1]

\* the ids of the entries a coroutine is about to add to the history
Next2(history) == <<Len(history) + 1, Len(history) + 2>>

\* lines 602-660 in one piece: r is the response the graph run gives,
\* raises: graph.invoke raised
TaskChat(t, p) ==
  /\ tasks[t].pc = "idle"
  /\ \E m \in p.utterances, sid \in SuppliedIds, r \in p.texts,
        raises \in BOOLEAN :
       LET new == IF sid = 0 THEN uuids + 1 ELSE sid
           now == clock + 1
           store == Touch(create_session(sessions, "default_user", new, now),
                          new, now)
           entries == IF raises THEN <<>>
                      ELSE <<Entry("user", m), Entry("assistant", r)>>
           at == IF raises THEN <<>>
                 ELSE Next2(store[new].conversation_history)
       IN /\ uuids' = (IF sid = 0 THEN uuids + 1 ELSE uuids)
          /\ sessions' = Extend(store, new, entries)
          /\ tasks' = [tasks EXCEPT ![t] =
                         [api |-> "chat", pc |-> "done", message |-> m,
                          session_id |-> new, full_content |-> r,
                          wrote |-> entries, at |-> at,
                          when |-> [i \in 1..Len(entries) |-> now],
                          snapshots |-> <<>>, lost |-> FALSE]]
  /\ clock' = clock + 1
  /\ UNCHANGED <<turns, api, pc, request, session_id, state, raised, llmLog,
                 toolLog, webLog, result, runner, stream, events, endpoint,
                 dbLog, before, db, observed, rag, analytics,
                 created>>

\* what a stream_chat() run yields and leaves as full_content
StreamRuns(p, m, sid) ==
  IF ContainsAny(m, admin_keywords)
  THEN {AdminRun([NoState EXCEPT
                    !.messages = <<HumanMessage(m), AIMessage(r, <<>>)>>],
                 <<>>, sid) : r \in p.texts}
       \cup {AdminRun(NoState, <<d>>, sid) : d \in Details}
  ELSE {GeneralRun(out, sid) :
          out \in GeneralOutcomes(p, m, {"astream", "invoke"})}

\* lines 664-680 and what follows up to the first await: the session is
\* found or made and the user entry added; on the admin branch the graph
\* runs, and with no word to replay lines 860-866 follow at once
TaskStreamBegin(t, p) ==
  /\ tasks[t].pc = "idle"
  /\ \E m \in p.utterances, sid \in SuppliedIds :
       LET new == IF sid = 0 THEN uuids + 1 ELSE sid
           now == clock + 1
           made == Touch(create_session(sessions, "default_user", new, now),
                         new, now)
           at == Next2(made[new].conversation_history)
           store == Extend(made, new, <<Entry("user", m)>>)
       IN \E run \in StreamRuns(p, m, new) :
            LET awaits == \/ ~ContainsAny(m, admin_keywords)
                          \/ run.snapshots # <<>>
                answers == ~awaits /\ Truthy(run.full_content)
            IN /\ uuids' = (IF sid = 0 THEN uuids + 1 ELSE uuids)
               /\ sessions' = (IF awaits THEN store
                               ELSE AddResponse(store, new, run.full_content))
               /\ tasks' = [tasks EXCEPT ![t] =
                     [api |-> "stream_chat",
                      pc |-> IF awaits THEN "awaiting" ELSE "done",
                      message |-> m, session_id |-> new,
                      full_content |-> run.full_content,
                      wrote |-> <<Entry("user", m)>>
                                \o (IF answers
                                    THEN <<Entry("assistant",
                                                 run.full_content)>>
                                    ELSE <<>>),
                      at |-> IF answers THEN at ELSE <<at[1]>>,
                      when |-> IF answers THEN <<now, now>> ELSE <<now>>,
                      snapshots |-> run.snapshots, lost |-> FALSE]]
  /\ clock' = clock + 1
  /\ UNCHANGED <<turns, api, pc, request, session_id, state, raised, llmLog,
                 toolLog, webLog, result, runner, stream, events, endpoint,
                 dbLog, before, db, observed, rag, analytics,
                 created>>

\* str(e) of the KeyError self.sessions[session_id] raises
KeyErrorText == <<"'", "session_id", "'">>

\* lines 860-885, once the last await returned: the assistant entry is
\* added; when the session is no longer in self.sessions the KeyError of
\* line 861 is caught at 868 and an apology is replayed
TaskStreamEnd(t) ==
  /\ tasks[t].pc = "awaiting"
  /\ LET sid == tasks[t].session_id
         full_content == tasks[t].full_content
     IN IF sid \in DOMAIN sessions
        THEN /\ sessions' = AddResponse(sessions, sid, full_content)
             /\ tasks' = [tasks EXCEPT ![t] =
                   IF Truthy(full_content)
                   THEN [@ EXCEPT
                           !.pc = "done",
                           !.wrote = Append(@, Entry("assistant",
                                                     full_content)),
                           !.at = Append(@,
                                    Len(sessions[sid].conversation_history)
                                      + 1),
                           !.when = Append(@, clock + 1)]
                   ELSE [@ EXCEPT !.pc = "done"]]
        ELSE /\ sessions' = sessions
             /\ tasks' = [tasks EXCEPT ![t] =
                   [@ EXCEPT
                      !.pc = "done",
                      !.lost = TRUE,
                      !.snapshots =
                        IF Truthy(full_content)
                        THEN @ \o ErrorReplay(ApologyText(KeyErrorText), sid)
                        ELSE @]]
  /\ clock' = clock + 1
  /\ UNCHANGED <<uuids, turns, api, pc, request, session_id, state, raised,
                 llmLog, toolLog, webLog, result, runner, stream, events,
                 endpoint, dbLog, before, db, observed, rag, analytics,
                 created>>

\* MaxTasks turns of chat() and stream_chat() in flight on one agent.
TasksNext ==
  \/ \E t \in 1..MaxTasks : TaskChat(t, TaskProfile)
  \/ \E t \in 1..MaxTasks : TaskStreamBegin(t, TaskProfile)
  \/ \E t \in 1..MaxTasks : TaskStreamEnd(t)

TasksSpec == Init /\ [][TasksNext]_vars

\* Turns of stream_chat() in flight on sessions that POST /sessions makes
\* and DELETE /sessions/{session_id} removes.
SuspendProfile == [TaskProfile EXCEPT !.texts = {<<"a">>}]

SuspendNext ==
  \/ CreateSession
  \/ DeleteSession
  \/ \E t \in 1..MaxTasks : TaskStreamBegin(t, SuspendProfile)
  \/ \E t \in 1..MaxTasks : TaskStreamEnd(t)

SuspendSpec == Init /\ [][SuspendNext]_vars

\* Turns one after another on the sessions of one agent, through chat(),
\* stream_chat() and /chat/stream.
SessionProfile ==
  [turns |-> MaxTurns, utterances |-> Utterances, texts |-> {<<>>, <<"a">>},
   rounds |-> 1, calls |-> 1, capped |-> TRUE, frags |-> 1,
   asked |-> {Asked(n, NoArgs) : n \in CalledNames}, envs |-> {QuietEnv}]

Next ==
  \/ ChatBegin(SessionProfile)
  \/ StreamBegin(SessionProfile)
  \/ EndpointBegin(SessionProfile)
  \/ Classify
  \/ NustHandler(SessionProfile)
  \/ CallModel(SessionProfile)
  \/ CallTools(SessionProfile)
  \/ GraphRaise
  \/ ChatEnd
  \/ ChatExcept
  \/ StreamAdminEnd
  \/ StreamGeneral(SessionProfile)
  \/ EndpointAfterChat
  \/ EndpointGeneral(SessionProfile)

Spec == Init /\ [][Next]_vars

\* The same turn with an LLM that may ask for tools in every response.
LoopProfile == [GraphProfile EXCEPT !.capped = FALSE]

LoopNext ==
  \/ ChatBegin(LoopProfile)
  \/ Classify
  \/ NustHandler(LoopProfile)
  \/ CallModel(LoopProfile)
  \/ CallTools(LoopProfile)
  \/ GraphRaise
  \/ ChatEnd
  \/ ChatExcept

\* The turn is not left half-way: whatever step is enabled is taken.
LoopSpec == Init /\ [][LoopNext]_vars /\ WF_vars(LoopNext)

\* classify_query on every utterance of up to MaxWords tokens, as chat()
\* hands it to the graph.
ClassifyProfile ==
  [GraphProfile EXCEPT !.utterances = SeqsUpTo(ClassifyTokens, MaxWords)]

ClassifyNext ==
  \/ ChatBegin(ClassifyProfile)
  \/ Classify

ClassifySpec == Init /\ [][ClassifyNext]_vars

\* One chat() turn on an admin task in which the LLM may ask for any tool,
\* one call per response, and the storage and the email service may fail.
ToolProfile ==
  [turns |-> 1, utterances |-> {<<"List Students">>}, texts |-> {<<"a">>},
   rounds |-> MaxToolRounds, calls |-> 1, capped |-> TRUE, frags |-> 0,
   asked |-> AskedTools, envs |-> Envs]

ToolNext ==
  \/ ChatBegin(ToolProfile)
  \/ Classify
  \/ CallModel(ToolProfile)
  \/ CallTools(ToolProfile)
  \/ GraphRaise
  \/ ChatEnd
  \/ ChatExcept

ToolSpec == Init /\ [][ToolNext]_vars

\* One tool call after another, as the rounds of call_tools make them
\* (tool.invoke(tool_args), lines 509-511), the storage working or
\* failing as `storages` has it; the log keeps the last `window` calls.
InvokeTool(storages, window) ==
  /\ \E asked \in {a \in AskedTools : a.name \in ToolNames},
        storage \in storages :
       LET env == [storage |-> storage, mail |-> "sent"]
           ran == RunTool(asked.name, asked.args, db, env)
           kept == IF toolLog = <<>> \/ window = 1 THEN <<>>
                   ELSE <<Last(toolLog[1])>>
           call == [name |-> asked.name, args |-> asked.args,
                    id |-> IF kept # <<>> /\ kept[1].id = 1 THEN 2 ELSE 1]
       IN /\ Len(ran.db.activity_logs) <= MaxLogs
          /\ db' = ran.db
          /\ toolLog' = <<Append(kept, Called(call, "ok", env, ran, db))>>
  /\ UNCHANGED <<sessions, uuids, clock, turns, api, pc, request, session_id,
                 state, raised, llmLog, webLog, result, runner, stream,
                 events, endpoint, dbLog, before, others>>

\* any sequence of tool calls, the storage failing at will
CallsNext == InvokeTool({"ok", "read_error", "write_error"}, 1)

CallsSpec == Init /\ [][CallsNext]_vars

\* any sequence of tool calls on a storage that works, two calls in view
PairsNext == InvokeTool({"ok"}, 2)

PairsSpec == Init /\ [][PairsNext]_vars

\* retrieve_context on a corpus of up to MaxDocs documents, as
\* _load_json_data may find it in the file
Docs ==
  {Document(<<>>, <<"a">>), Document(<<"A">>, <<>>),
   Document(<<"b">>, <<"a", "a", "a">>), Document(<<>>, <<"b">>),
   Document(<<>>, <<"c">>)}

Queries == {<<>>, <<"a">>, <<"A", " ", "b">>, <<"a", "a">>, <<"a", " ", "a">>}

RetrieveInit ==
  /\ Constructed
  /\ rag \in {Loaded(docs) : docs \in SeqsUpTo(Docs, MaxDocs)}

\* self.nust_rag.retrieve_context(query)
Retrieve ==
  /\ \E query \in Queries :
       rag' = [rag EXCEPT !.query = query,
                          !.results = retrieve_context(rag.json_docs, query),
                          !.asked = TRUE]
  /\ UNCHANGED <<sessions, uuids, clock, turns, api, pc, request, session_id,
                 state, raised, llmLog, toolLog, webLog, result, runner,
                 stream, events, endpoint, dbLog, before, db, tasks,
                 observed, analytics, created>>

RetrieveNext == Retrieve

RetrieveSpec == RetrieveInit /\ [][RetrieveNext]_vars

\* --------------------------------------------------------------- claims
AsksTools(out) == out.tool_calls # <<>>

\* a chat() turn went through the nodes "agent"/"tools" and graph.invoke
\* returned
AgentTurnReturned ==
  /\ pc = "done"
  /\ api = "chat"
  /\ state.operation_type # "nust_info"
  /\ raised = <<>>

\* C1: when the tool loop of chat() ends, the LLM was invoked k+1 times for
\* some k >= 0, its first k responses asked for tools and the last one did
\* not, exactly k tool rounds were executed, and chat() returns the text of
\* that last response.
C1_ToolLoopRounds ==
  AgentTurnReturned =>
    LET k == Len(llmLog) - 1
    IN /\ k >= 0
       /\ \A i \in 1..k : AsksTools(llmLog[i])
       /\ ~AsksTools(llmLog[k + 1])
       /\ Len(toolLog) = k
       /\ result.response = (IF llmLog[k + 1].raises
                             THEN ModelErrorText(llmLog[k + 1].detail)
                             ELSE llmLog[k + 1].content)

C1_Witness ==
  /\ AgentTurnReturned
  /\ Len(toolLog) = MaxRounds
  /\ Len(llmLog) = MaxRounds + 1
  /\ ~llmLog[MaxRounds + 1].raises
  /\ result.response = <<"a", " ", "b">>

\* the tool-result messages that carry the correlation id
ResultsFor(messages, id) ==
  {j \in 1..Len(messages) :
     messages[j].type = "tool" /\ messages[j].tool_call_id = id}

\* C2: when a tool round has finished, every tool call of the LLM's last
\* response has exactly one tool-result message with its correlation id in
\* the message list.
C2_EveryCallAnswered ==
  (pc = "agent" /\ toolLog # <<>>) =>
    \A i \in 1..Len(Last(toolLog)) :
      Cardinality(ResultsFor(state.messages, Last(toolLog)[i].id)) = 1

StreamOver == api = "stream_chat" /\ pc = "done"

AdminBranch == runner = "stream_chat"

LlmRaised == llmLog # <<>> /\ Last(llmLog).raises

ToolRaised ==
  \E r \in 1..Len(toolLog) : \E i \in 1..Len(toolLog[r]) :
    toolLog[r][i].out = "raise"

WebFailed == \E i \in 1..Len(webLog) : webLog[i].outcome = "error"

\* C4: the stream of a stream_chat() turn that ended without an exception
\* is not empty, its last snapshot has progress 100 and complete = true,
\* and no earlier snapshot has progress above 100 or complete = true.
C4_StreamEndsComplete ==
  (StreamOver /\ raised = <<>> /\ ~LlmRaised) =>
    /\ stream # <<>>
    /\ Is100(Last(stream).progress)
    /\ Last(stream).complete
    /\ \A i \in 1..(Len(stream) - 1) :
         ~stream[i].complete /\ Leq(stream[i].progress, Progress(100, 1))

\* C5 as stated: after an exception anywhere in a stream_chat() turn (the
\* graph run, an LLM call, the iteration of the fragments) the stream has
\* a snapshot with error = true whose text carries the exception detail,
\* and its last snapshot has complete = true.
C5_AnyExceptionFlagged ==
  (StreamOver /\ (raised # <<>> \/ LlmRaised)) =>
    /\ \E i \in 1..Len(stream) :
         /\ stream[i].error
         /\ \E d \in Details :
              stream[i].response \in {ApologyText(d), RequestErrorText(d)}
    /\ Last(stream).complete

\* C5, amended: an exception that graph.invoke raises, and an exception of
\* the LLM call, of the fragment iteration or of the prompt building on the
\* branch of the general queries, ends the stream with an error = true,
\* complete = true snapshot whose text is the apology followed by the
\* detail, every snapshot after the fragments carrying error = true; an
\* exception of the LLM inside the graph is turned into an answer by the
\* node, and that answer is streamed with no error flag and ends with
\* complete = true.
C5_ExceptionsInStream ==
  StreamOver =>
    /\ raised # <<>> =>
         /\ stream # <<>>
         /\ \A i \in 1..Len(stream) : stream[i].error
         /\ Last(stream).complete
         /\ Last(stream).response = RequestErrorText(raised[1])
    /\ (~AdminBranch /\ LlmRaised) =>
         /\ stream # <<>>
         /\ \A i \in 1..Len(stream) :
              stream[i].error <=> ~stream[i].streaming
         /\ Last(stream).error
         /\ Last(stream).complete
         /\ Last(stream).response = ApologyText(Last(llmLog).detail)
    /\ (AdminBranch /\ raised = <<>> /\ LlmRaised) =>
         /\ stream # <<>>
         /\ \A i \in 1..Len(stream) : ~stream[i].error
         /\ Last(stream).complete

C5_Witness ==
  /\ StreamOver
  /\ ~AdminBranch
  /\ LlmRaised
  /\ Last(llmLog).kind = "astream"
  /\ Len(Last(llmLog).frags) = MaxFrags
  /\ stream[1].streaming
  /\ Last(stream).error
  /\ Last(stream).complete

\* the progress of the units of a stream never decreases, and the last
\* unit alone reports 100
Monotone(units) ==
  /\ \A i \in 1..(Len(units) - 1) :
       Leq(units[i].progress, units[i + 1].progress)
  /\ \A i \in 1..Len(units) : Is100(units[i].progress) <=> i = Len(units)

\* C6: within one streamed answer, of stream_chat() and of /chat/stream
\* alike, the progress never decreases from one unit to the next and 100 is
\* reported exactly once, by the final unit.
C6_ProgressMonotone ==
  pc = "done" => Monotone(stream) /\ Monotone(events)

\* the history a session had when the turn began
HistoryBefore(sid) ==
  IF sid \in DOMAIN before THEN before[sid].conversation_history ELSE <<>>

Alternates(history) ==
  /\ Len(history) % 2 = 0
  /\ \A i \in 1..Len(history) :
       history[i].role = (IF i % 2 = 1 THEN "user" ELSE "assistant")

\* C7: a turn through chat() or stream_chat() in which graph.invoke did not
\* raise adds exactly two entries to the history of its session, the user
\* entry and then an assistant entry, and sets last_activity; the history
\* of every session has even length and alternating roles.
C7_TwoEntriesPerTurn ==
  (pc = "done" /\ api \in {"chat", "stream_chat"} /\ raised = <<>>) =>
    LET history == sessions[session_id].conversation_history
        old == HistoryBefore(session_id)
    IN /\ Len(history) = Len(old) + 2
       /\ SubSeq(history, 1, Len(old)) = old
       /\ history[Len(old) + 1] = Entry("user", request.message)
       /\ history[Len(old) + 2].role = "assistant"
       /\ sessions[session_id].last_activity = clock
       /\ \A sid \in DOMAIN sessions :
            Alternates(sessions[sid].conversation_history)

\* the wordings of an apology: the four that carry a detail, and the fixed
\* sentence
IsApology(text) ==
  \/ text = SorryText
  \/ \E d \in Details :
       text \in {ModelErrorText(d), NustErrorText(d), RequestErrorText(d),
                 ApologyText(d)}

\* C8: when a chat() turn failed (graph.invoke raised, the LLM raised, a
\* tool raised), the user entry and an apology-worded assistant entry are
\* added to the history of the session.
C8_FailedTurnRecorded ==
  (pc = "done" /\ api = "chat"
   /\ (raised # <<>> \/ LlmRaised \/ ToolRaised)) =>
    LET history == sessions[session_id].conversation_history
        old == HistoryBefore(session_id)
    IN /\ Len(history) = Len(old) + 2
       /\ history[Len(old) + 1] = Entry("user", request.message)
       /\ history[Len(old) + 2].role = "assistant"
       /\ IsApology(history[Len(old) + 2].content)

ChatOver == api = "chat" /\ pc = "done"

\* C9 as stated: chat() returns a result, and after any failure (of the
\* LLM, of a tool, of the web search, of the graph run) its response is an
\* apology.
C9_AnyFailureApologises ==
  ChatOver =>
    /\ result.returned
    /\ (raised # <<>> \/ LlmRaised \/ ToolRaised \/ WebFailed) =>
         IsApology(result.response)

\* C9, amended: chat() always returns a result to its caller, with the id
\* of the session of the turn; when graph.invoke raised or the LLM raised,
\* the response is the apology followed by the detail; a failed tool or web
\* search is handed to the LLM as a result, and the response is what the
\* LLM answers next (the fixed sentence when a NUST answer is empty).
C9_ChatAlwaysReturns ==
  ChatOver =>
    /\ result.returned
    /\ result.session_id = session_id
    /\ raised # <<>> => result.response = RequestErrorText(raised[1])
    /\ (raised = <<>> /\ LlmRaised) =>
         result.response =
           (IF state.operation_type = "nust_info"
            THEN NustErrorText(Last(llmLog).detail)
            ELSE ModelErrorText(Last(llmLog).detail))
    /\ (raised = <<>> /\ ~LlmRaised) =>
         /\ llmLog # <<>>
         /\ result.response =
              (IF state.operation_type = "nust_info"
                  /\ Last(llmLog).content = <<>>
               THEN SorryText ELSE Last(llmLog).content)

C9_Witness ==
  /\ ChatOver
  /\ raised = <<>>
  /\ ToolRaised
  /\ ~LlmRaised
  /\ result.returned
  /\ result.response = <<"a">>

\* the session ids a turn handed to its caller
HandedBack ==
  (IF result.returned /\ api = "chat" THEN {result.session_id} ELSE {})
  \cup {stream[i].session_id : i \in 1..Len(stream)}
  \cup {events[i].session_id : i \in 1..Len(events)}

\* C10: when a turn through chat(), stream_chat() or /chat/stream is over,
\* every session id it handed back is a key of self.sessions, and is the
\* supplied id when one was supplied.
C10_ReturnedIdInStore ==
  pc = "done" =>
    \A id \in HandedBack :
      /\ id \in DOMAIN sessions
      /\ request.session_id # 0 => id = request.session_id

\* the node "classify" has run on the utterance of a chat() turn
Classified == api = "chat" /\ pc \in {"nust_handler", "agent"}

HasKeyword(text, keywords) ==
  \E i \in 1..Len(text) : \E k \in keywords : Lower(text[i]) = k

\* C11: classify_query yields one of the three classes for every utterance:
\* nust_info whenever the lower-cased utterance holds a university keyword,
\* whatever its casing and position and whether or not an admin keyword is
\* there too; campus_admin when it holds an admin keyword and no university
\* keyword; general otherwise.
C11_ClassifyByKeywords ==
  Classified =>
    LET university == HasKeyword(request.message, nust_keywords)
        admin == HasKeyword(request.message, admin_keywords)
        operation_type == state.operation_type
    IN /\ operation_type \in {"nust_info", "campus_admin", "general"}
       /\ university => operation_type = "nust_info"
       /\ (admin /\ ~university) => operation_type = "campus_admin"
       /\ (~admin /\ ~university) => operation_type = "general"

C11_Witness ==
  /\ Classified
  /\ request.message = <<"Add Student", " ", "NUST">>
  /\ state.operation_type = "nust_info"
  /\ pc = "nust_handler"

\* a chat() turn on the information path is over
InformationTurn == ChatOver /\ state.operation_type = "nust_info"

\* C12 as stated: a chat() turn on the information path searched the web
\* once, invoked the LLM exactly once, executed no tool, and returns that
\* completion, or the apology of the node when the LLM raised.
C12_InformationOneStep ==
  (InformationTurn /\ raised = <<>>) =>
    /\ Len(webLog) = 1
    /\ Len(llmLog) = 1
    /\ toolLog = <<>>
    /\ result.response = (IF llmLog[1].raises
                          THEN NustErrorText(llmLog[1].detail)
                          ELSE llmLog[1].content)

\* C12, amended: a chat() turn on the information path executes no tool
\* and never reaches the node "agent"; when the node returned, it searched
\* the web once and invoked the LLM exactly once, without tools, and the
\* answer is the completion, the fixed sentence when the completion is
\* empty, or the apology of the node when the LLM raised; when the node
\* raised before the LLM was reached, the answer is the apology of chat().
C12_InformationPath ==
  InformationTurn =>
    /\ toolLog = <<>>
    /\ \A i \in 1..Len(llmLog) : ~AsksTools(llmLog[i])
    /\ raised = <<>> =>
         /\ Len(webLog) = 1
         /\ Len(llmLog) = 1
         /\ result.response =
              (IF llmLog[1].raises THEN NustErrorText(llmLog[1].detail)
               ELSE IF llmLog[1].content = <<>> THEN SorryText
               ELSE llmLog[1].content)
    /\ raised # <<>> =>
         /\ llmLog = <<>>
         /\ webLog = <<>>
         /\ result.response = RequestErrorText(raised[1])

C12_Witness ==
  /\ InformationTurn
  /\ request.message = <<"nust", " ", "Add Student">>
  /\ Len(webLog) = 1
  /\ webLog[1].outcome = "results"
  /\ Len(llmLog) = 1
  /\ result.response = <<"a", " ", "b">>

\* C13: a chat() turn on a general utterance ends after a single LLM
\* completion and executes no tool.
C13_GeneralNoTools ==
  (ChatOver /\ state.operation_type = "general" /\ raised = <<>>) =>
    /\ toolLog = <<>>
    /\ Len(llmLog) = 1

\* the entries of a history as the messages of a conversation
HistoryMessages(history) ==
  [i \in 1..Len(history) |->
     IF history[i].role = "user" THEN HumanMessage(history[i].content)
     ELSE AIMessage(history[i].content, <<>>)]

\* the LLM was invoked by the node "agent" in a chat() turn
AdminLoopTurn ==
  api = "chat" /\ state.operation_type \in {"campus_admin", "general"}
  /\ llmLog # <<>>

\* C14: in the tool loop of chat() the first LLM invocation of a turn is
\* given the system instructions, the prior turns of the history of the
\* session in order, and the utterance; each later invocation is given the
\* list of the one before it, extended by the response of that invocation
\* and by tool results.
C14_FullHistoryToLlm ==
  AdminLoopTurn =>
    /\ llmLog[1].input =
         <<HumanMessage(system_message)>>
         \o HistoryMessages(HistoryBefore(session_id))
         \o <<HumanMessage(request.message)>>
    /\ \A i \in 2..Len(llmLog) :
         LET earlier == llmLog[i - 1].input
             given == llmLog[i].input
         IN /\ IsPrefix(earlier, given)
            /\ Len(given) > Len(earlier)
            /\ given[Len(earlier) + 1].type = "ai"
            /\ given[Len(earlier) + 1].tool_calls = llmLog[i - 1].tool_calls
            /\ \A j \in (Len(earlier) + 2)..Len(given) :
                 given[j].type = "tool"

\* the class of the branch a stream_chat() turn took: the one the graph
\* gave the query, or general when the LLM was asked directly
StreamClass ==
  IF AdminBranch THEN state.operation_type ELSE "general"

\* C15: a stream_chat() turn takes the branch chat() takes for the same
\* utterance (information, admin tool loop, general), and on the
\* information branch the web is searched before the LLM completion, as
\* in chat().
C15_StreamSameBranch ==
  (StreamOver /\ raised = <<>>) =>
    /\ StreamClass = classify_query(request.message)
    /\ classify_query(request.message) = "nust_info" =>
         Len(webLog) = 1

\* the tool calls the turn executed so far whose tool is `names`
CallsOf(names) ==
  {c \in UNION {{toolLog[r][i] : i \in 1..Len(toolLog[r])} :
                  r \in 1..Len(toolLog)} : c.name \in names}

\* the tool returned a dict
Returned(c) == c.returned # <<>>

\* the dict carries a success flag, and it is true (false)
Succeeded(c) ==
  Returned(c) /\ "success" \in DOMAIN c.returned[1] /\ c.returned[1].success

Failed(c) ==
  Returned(c) /\ "success" \in DOMAIN c.returned[1] /\ ~c.returned[1].success

\* C16: no call of delete_student_tool attempts a notification, whether
\* the student is there or not and whatever the storage does.
C16_DeleteNeverNotifies ==
  \A c \in CallsOf({"delete_student_tool"}) : c.mails = <<>>

C16_Witness ==
  \E c \in CallsOf({"delete_student_tool"}) :
    /\ Succeeded(c)
    /\ c.args.student_id \in DOMAIN c.found.students
    /\ c.args.student_id \notin DOMAIN c.left.students
    /\ c.mails = <<>>

\* C17: every dict delete_student_tool returns carries email_sent = false:
\* after a deletion, for a missing id and after a storage failure alike.
C17_DeleteReportsNoEmail ==
  \A c \in CallsOf({"delete_student_tool"}) :
    Returned(c) =>
      /\ "email_sent" \in DOMAIN c.returned[1]
      /\ c.returned[1].email_sent = FALSE

\* the storage operation of add_student_tool / update_student_info went
\* through: the row and the activity are written
Written(c) == c.left # c.found

\* C18: a call of add_student_tool or update_student_info whose storage
\* operation succeeded attempts exactly one notification and returns
\* success = true, whether the notification is sent, reports a failure or
\* raises; a call whose storage operation did not succeed attempts none.
C18_NotifyOnceOnSuccess ==
  \A c \in CallsOf({"add_student_tool", "update_student_info"}) :
    Returned(c) =>
      /\ Written(c) => Len(c.mails) = 1 /\ Succeeded(c)
      /\ ~Written(c) => c.mails = <<>> /\ ~Succeeded(c)

C18_Witness ==
  \E c \in CallsOf({"add_student_tool"}) :
    /\ Written(c)
    /\ Len(c.mails) = 1
    /\ c.mails[1].outcome = "raise"
    /\ Succeeded(c)

\* C19: every dict a tool returns carries a success flag, and a message
\* when the flag is false; in particular a call in which the storage
\* raised returns success = false.
C19_ToolsReturnSuccessFlag ==
  \A c \in CallsOf(ToolNames) :
    Returned(c) =>
      /\ "success" \in DOMAIN c.returned[1]
      /\ ~c.returned[1].success => "message" \in DOMAIN c.returned[1]

\* the calls that cannot be carried out: a duplicate id or email, an
\* unknown field, a missing id
RefusedCall(c) ==
  LET there == c.args.student_id \in DOMAIN c.found.students
  IN /\ c.name \in {"add_student_tool", "update_student_info",
                    "get_student_info", "delete_student_tool"}
     /\ CASE c.name = "add_student_tool" ->
               there \/ EmailTaken(c.found, c.args.email, "")
          [] c.name = "update_student_info" ->
               ~there \/ c.args.field \notin allowed_fields
          [] OTHER -> ~there

\* the LLM invocation that follows tool round r was given the result of c
ReadByLlm(r, c) ==
  /\ Len(llmLog) > r
  /\ \E j \in 1..Len(llmLog[r + 1].input) :
       LET given == llmLog[r + 1].input[j]
       IN /\ given.type = "tool"
          /\ given.tool_call_id = c.id
          /\ given.json = ToolJson(c.returned[1])

\* C20: a tool call that cannot be carried out (add with a duplicate id or
\* email, update with an unknown field or a missing id, get or delete with
\* a missing id) returns success = false, leaves the students and the
\* activity logs as they were, attempts no notification, and the loop goes
\* on: the next LLM invocation is given the result.
C20_RefusedCallsChangeNothing ==
  \A r \in 1..Len(toolLog) : \A i \in 1..Len(toolLog[r]) :
    LET c == toolLog[r][i]
    IN (c.out = "ok" /\ c.storage = "ok" /\ RefusedCall(c)) =>
         /\ Failed(c)
         /\ c.left = c.found
         /\ c.mails = <<>>
         /\ (r = Len(toolLog) /\ Len(llmLog) = r) => pc \in {"agent", "raised", "done"}
         /\ Len(llmLog) > r => ReadByLlm(r, c)
         /\ (pc = "done" /\ raised = <<>>) => ReadByLlm(r, c)

C20_Witness ==
  /\ pc = "done"
  /\ raised = <<>>
  /\ Len(toolLog) = MaxToolRounds
  /\ LET c == Last(toolLog)[1]
     IN /\ c.name = "add_student_tool"
        /\ c.storage = "ok"
        /\ c.args.student_id \notin DOMAIN c.found.students
        /\ EmailTaken(c.found, c.args.email, "")
        /\ Failed(c)
        /\ c.left = c.found
        /\ ReadByLlm(Len(toolLog), c)

\* the documents a retrieval left out
LeftOut == (1..Len(rag.json_docs)) \ {rag.results[k] : k \in 1..Len(rag.results)}

\* C28: retrieve_context(query) returns at most 3 entries of the corpus,
\* each with a score above 0, the score being the sum over the keywords of
\* the query of the occurrences in the body plus twice those in the title;
\* they are ordered by descending score, entries of equal score in the
\* order of the corpus; and no entry left out scores higher than, or ties
\* with and precedes, one that is returned.
C28_TopThreeByScore ==
  rag.asked =>
    LET sc(i) == Score(rag.json_docs[i], rag.query)
        r == rag.results
    IN /\ Len(r) <= 3
       /\ \A k \in 1..Len(r) : r[k] \in 1..Len(rag.json_docs) /\ sc(r[k]) > 0
       /\ \A k, l \in 1..Len(r) :
            k < l => \/ sc(r[k]) > sc(r[l])
                     \/ sc(r[k]) = sc(r[l]) /\ r[k] < r[l]
       /\ \A i \in LeftOut : \A k \in 1..Len(r) :
            \/ sc(r[k]) > sc(i)
            \/ sc(r[k]) = sc(i) /\ r[k] < i

\* four documents score, two of the three returned tie, and the sort
\* moved a later document ahead of an earlier one
C28_Witness ==
  /\ rag.asked
  /\ Len(rag.results) = 3
  /\ \E i \in LeftOut : Score(rag.json_docs[i], rag.query) > 0
  /\ rag.results[1] > rag.results[2]
  /\ Score(rag.json_docs[rag.results[2]], rag.query)
       = Score(rag.json_docs[rag.results[3]], rag.query)

\* a web search of the turn met a provider that was not initialised or a
\* request that failed
SearchFailed(w) == w.outcome \in {"unavailable", "error"}

\* C29: WebSearchTool.search does not raise: when the provider was not
\* initialised or the request fails it returns a list of one entry, titled
\* "Search Unavailable" or "Search Error", from the source "Error" and
\* with a diagnostic snippet; and the information turn that called it
\* invokes the LLM once on the prompt that carries this entry and returns
\* what the LLM call gives.
C29_FailedSearchIsAnEntry ==
  /\ \A i \in 1..Len(webLog) :
       SearchFailed(webLog[i]) =>
         /\ Len(webLog[i].results) = 1
         /\ webLog[i].results[1].title =
              (IF webLog[i].outcome = "unavailable" THEN "Search Unavailable"
               ELSE "Search Error")
         /\ webLog[i].results[1].source = "Error"
         /\ webLog[i].results[1].snippet # <<>>
  /\ (InformationTurn /\ webLog # <<>> /\ SearchFailed(webLog[1])) =>
       /\ raised = <<>>
       /\ result.returned
       /\ Len(llmLog) = 1
       /\ llmLog[1].input =
            <<HumanMessage(nust_prompt(request.message, webLog[1].results))>>
       /\ result.response =
            (IF llmLog[1].raises THEN NustErrorText(llmLog[1].detail)
             ELSE IF llmLog[1].content = <<>> THEN SorryText
             ELSE llmLog[1].content)

C29_Witness ==
  /\ InformationTurn
  /\ Len(webLog) = 1
  /\ webLog[1].outcome = "error"
  /\ webLog[1].results[1].snippet
       = <<"Could not perform web search: ", "E">>
  /\ ~llmLog[1].raises
  /\ result.response = <<"a", " ", "b">>

\* the query names the institution
NamesInstitution(query) == \E i \in 1..Len(query) : Lower(query[i]) = "nust"

\* C30: search() sends the provider the query with the name of the
\* institution put before it exactly when the query does not name the
\* institution, and the query as it is when it does.
C30_PrefixUnlessNamed ==
  \A i \in 1..Len(webLog) :
    webLog[i].sent # <<>> =>
      webLog[i].sent[1] =
        (IF NamesInstitution(webLog[i].query) THEN webLog[i].query
         ELSE <<"NUST University Pakistan", " ">> \o webLog[i].query)

\* the position in messages of the tool-result message with the id
ResultAt(messages, id) == CHOOSE j \in ResultsFor(messages, id) : TRUE

\* the calls of every executed round
AllCalls ==
  UNION {{toolLog[r][i] : i \in 1..Len(toolLog[r])} : r \in 1..Len(toolLog)}

\* C24: the tool-result messages of a round, as the next LLM invocation is
\* given them, stand in the order of the tool calls of the response that
\* asked for them, behind that response, and each carries the id of the
\* call that produced it: what that call returned, or the text of its
\* error.
C24_ResultsInCallOrder ==
  \A r \in 1..Len(toolLog) :
    Len(llmLog) > r =>
      LET given == llmLog[r + 1].input
          round == toolLog[r]
          Answered(i) == ResultsFor(given, round[i].id) # {}
      IN /\ \A i, j \in 1..Len(round) :
              (i < j /\ Answered(i) /\ Answered(j)) =>
                ResultAt(given, round[i].id) < ResultAt(given, round[j].id)
         /\ \A i \in 1..Len(round) :
              Answered(i) =>
                LET m == given[ResultAt(given, round[i].id)]
                IN /\ Cardinality(ResultsFor(given, round[i].id)) = 1
                   /\ \E k \in 1..(ResultAt(given, round[i].id) - 1) :
                        /\ given[k].type = "ai"
                        /\ Len(given[k].tool_calls) >= i
                        /\ given[k].tool_calls[i].id = round[i].id
                   /\ IF round[i].out = "ok"
                      THEN m.json = ToolJson(round[i].returned[1])
                      ELSE /\ m.json = <<>>
                           /\ \E d \in Details :
                                m.content = ToolErrorText(round[i].name, d)
         /\ \A j \in 1..Len(given) :
              given[j].type = "tool" =>
                \E c \in AllCalls : c.id = given[j].tool_call_id

\* a round of two calls, the first returning and the second raising, was
\* read by the next LLM invocation
C24_Witness ==
  /\ Len(toolLog) >= 1
  /\ Len(llmLog) >= 2
  /\ Len(toolLog[1]) = 2
  /\ toolLog[1][1].out = "ok"
  /\ toolLog[1][2].out = "raise"
  /\ \E j \in 1..Len(llmLog[2].input) - 1 :
       /\ llmLog[2].input[j].tool_call_id = toolLog[1][1].id
       /\ llmLog[2].input[j + 1].tool_call_id = toolLog[1][2].id
       /\ llmLog[2].input[j].type = "tool"
       /\ llmLog[2].input[j + 1].type = "tool"

\* the first i words, joined by single spaces
RECURSIVE JoinWords(_, _)
JoinWords(words, i) ==
  IF i = 0 THEN <<>>
  ELSE IF i = 1 THEN words[1]
  ELSE JoinWords(words, i - 1) \o <<" ">> \o words[i]

\* units is the replay of text as the claim has it
ReplayOf(units, text) ==
  LET words == Split(text)
      n == Len(words)
  IN n >= 1 =>
       /\ Len(units) = n
       /\ \A i \in 1..Len(units) :
            /\ units[i].response = JoinWords(words, i)
            /\ units[i].progress = Progress(100 * i, n)
            /\ units[i].complete <=> i = n

\* C25: the replay of a finished text of n >= 1 words, by stream_chat()
\* on the branch of the admin tasks and by /chat/stream on its admin
\* branch, has exactly n units; the i-th carries the first i words joined
\* by single spaces and the progress 100 * i / n, and the n-th alone
\* carries complete = true.
C25_WordReplayUnits ==
  /\ (StreamOver /\ AdminBranch /\ raised = <<>>) =>
       ReplayOf(stream, FinalResponse(state))
  /\ (api = "stream_endpoint" /\ pc = "done" /\ endpoint.branch = "admin") =>
       ReplayOf(events, endpoint.full_response)

\* a turn through /chat/stream is over
EndpointOver == api = "stream_endpoint" /\ pc = "done"

\* C23: the event stream of a /chat/stream turn is made of events of the
\* kinds message, complete and error, and its last event carries
\* complete = true, whether the turn succeeded or failed.
C23_LastEventComplete ==
  EndpointOver =>
    /\ events # <<>>
    /\ \A i \in 1..Len(events) :
         events[i].event \in {"message", "complete", "error"}
    /\ Last(events).complete

\* the turns addressed to a session
TurnsOn(sid) == {t \in 1..MaxTasks : tasks[t].session_id = sid}

\* the places of a history the turn t wrote
PlacesOf(t) == {tasks[t].at[k] : k \in 1..Len(tasks[t].at)}

\* C21: under every interleaving of the steps of the turns in flight,
\* the history of a session holds the entries of the turns addressed to
\* its id and no other: every entry was written by one such turn, and the
\* entries of a turn stand in it in the order the turn wrote them.
C21_SessionsIsolated ==
  \A sid \in DOMAIN sessions :
    LET history == sessions[sid].conversation_history
    IN /\ \A i \in 1..Len(history) :
            Cardinality({t \in TurnsOn(sid) : i \in PlacesOf(t)}) = 1
       /\ \A t \in TurnsOn(sid) :
            /\ \A k \in 1..Len(tasks[t].at) :
                 /\ tasks[t].at[k] <= Len(history)
                 /\ history[tasks[t].at[k]] = tasks[t].wrote[k]
            /\ \A k \in 1..(Len(tasks[t].at) - 1) :
                 tasks[t].at[k] < tasks[t].at[k + 1]

\* a stream_chat() turn on one session and a turn on another one, begun
\* and ended while the first awaited
C21_Witness ==
  /\ tasks[1].api = "stream_chat"
  /\ tasks[1].pc = "done"
  /\ tasks[2].pc = "done"
  /\ tasks[1].session_id # tasks[2].session_id
  /\ Len(tasks[1].when) = 2
  /\ Len(tasks[2].when) = 2
  /\ tasks[1].when[1] < tasks[2].when[1]
  /\ tasks[2].when[2] < tasks[1].when[2]

\* C22: the user entry and the assistant entry of a turn are next to each
\* other in the history, whatever other turn is in flight on the session.
C22_TurnEntriesAdjacent ==
  \A t \in 1..MaxTasks :
    Len(tasks[t].at) = 2 => tasks[t].at[2] = tasks[t].at[1] + 1

\* C26: the history of a session only grows at its end: whatever was
\* read for a session id earlier is a prefix of the history the id has
\* later, across the making and the deleting of sessions and the turns of
\* chat(), stream_chat() and /chat/stream.
C26_HistoryAppendOnly ==
  \A sid \in (DOMAIN observed) \cap (DOMAIN sessions) :
    IsPrefix(observed[sid], sessions[sid].conversation_history)

\* the sum of the values of a function with a finite domain
RECURSIVE SumOver(_, _)
SumOver(f, S) ==
  IF S = {} THEN 0
  ELSE LET x == CHOOSE y \in S : TRUE
       IN f[x] + SumOver(f, S \ {x})

\* C27: the report of get_campus_analytics counts, per department, the
\* students of that department, the counts adding up to the total; its
\* activity rate is active / total * 100, rounded to two decimals, and 0
\* when there is no student.
C27_AnalyticsCounts ==
  analytics # <<>> =>
    LET d == analytics[1].store
        a == analytics[1].report
        total == Cardinality(DOMAIN d.students)
        active == Cardinality({d.activity_logs[i].student_id :
                                 i \in 1..Len(d.activity_logs)})
        by == a.department_breakdown
    IN /\ a.total_students = total
       /\ a.active_last_7_days = active
       /\ \A id \in DOMAIN d.students : d.students[id].department \in DOMAIN by
       /\ \A dep \in DOMAIN by :
            by[dep] = Cardinality({id \in DOMAIN d.students :
                                     d.students[id].department = dep})
       /\ SumOver(by, DOMAIN by) = total
       /\ a.activity_rate = (IF total = 0 THEN 0
                             ELSE Round2(active * 100, total))

\* C31: create_session, given an id that is in the store, returns that id
\* and leaves the store as it found it, whichever user id it is given;
\* given a new id or none, it adds one session, with an empty history,
\* under the id it returns, and changes no other session.
C31_CreateSessionIdempotent ==
  created # <<>> =>
    LET c == created[1]
    IN IF c.session_id \in DOMAIN c.found
       THEN c.returned = c.session_id /\ c.left = c.found
       ELSE /\ c.session_id # 0 => c.returned = c.session_id
            /\ c.returned \notin DOMAIN c.found
            /\ DOMAIN c.left = (DOMAIN c.found) \cup {c.returned}
            /\ c.left[c.returned].conversation_history = <<>>
            /\ c.left[c.returned].user_id = c.user_id
            /\ \A k \in DOMAIN c.found : c.left[k] = c.found[k]

\* create_session was given the id of a session of another user, one that
\* has a history and was last active after it was made
C31_Witness ==
  /\ created # <<>>
  /\ created[1].session_id \in DOMAIN created[1].found
  /\ LET s == created[1].found[created[1].session_id]
     IN /\ s.user_id # created[1].user_id
        /\ s.conversation_history # <<>>
        /\ s.last_activity > s.created_at

\* the last calls of the tools, oldest first
LastCalls == IF toolLog = <<>> THEN <<>> ELSE toolLog[1]

\* an update_student_info that would give a student the email of another
EmailClash(c) ==
  /\ c.name = "update_student_info"
  /\ c.args.field = "email"
  /\ c.args.student_id \in DOMAIN c.found.students
  /\ EmailTaken(c.found, c.args.new_value, c.args.student_id)

\* C32: after any sequence of tool calls no two student records share an
\* id and no two share an email; an update_student_info that would set an
\* email another student has returns a failure and leaves the students
\* and the activity logs unchanged.
C32_IdsAndEmailsUnique ==
  /\ \A id \in DOMAIN db.students : db.students[id].id = id
  /\ \A a, b \in DOMAIN db.students :
       a # b => db.students[a].email # db.students[b].email
  /\ \A i \in 1..Len(LastCalls) :
       LET c == LastCalls[i]
       IN EmailClash(c) =>
            /\ ~Succeeded(c)
            /\ c.storage = "ok" => Failed(c)
            /\ c.left = c.found

\* two students are stored, and the last call tried to give one of them
\* the email of the other
C32_Witness ==
  /\ Cardinality(DOMAIN db.students) = 2
  /\ LastCalls # <<>>
  /\ LET c == Last(LastCalls)
     IN EmailClash(c) /\ c.storage = "ok" /\ Failed(c)

\* C33: after any sequence of tool calls every activity-log entry names a
\* student that is stored, so the active students of the analytics are at
\* most the total and the activity rate lies between 0 and 100.
C33_LogsNameStoredStudents ==
  /\ \A i \in 1..Len(db.activity_logs) :
       db.activity_logs[i].student_id \in DOMAIN db.students
  /\ LET a == campus_analytics(db)
     IN /\ a.active_last_7_days <= a.total_students
        /\ a.activity_rate \in 0..10000
  /\ \A i \in 1..Len(LastCalls) :
       LET c == LastCalls[i]
       IN (c.name = "get_campus_analytics" /\ Succeeded(c)) =>
            /\ c.returned[1].analytics.active_last_7_days
                 <= c.returned[1].analytics.total_students
            /\ c.returned[1].analytics.activity_rate \in 0..10000

\* an update of a student that is not stored was refused, while a stored
\* student has an activity
C33_Witness ==
  /\ LastCalls # <<>>
  /\ LET c == Last(LastCalls)
     IN /\ c.name = "update_student_info"
        /\ c.storage = "ok"
        /\ c.args.field \in allowed_fields
        /\ c.args.student_id \notin DOMAIN c.found.students
        /\ Failed(c)
  /\ db.activity_logs # <<>>

\* an add_student_tool that stored a new id, followed at once by a
\* delete_student_tool of that id that succeeded
AddThenDelete ==
  /\ Len(LastCalls) = 2
  /\ LastCalls[1].name = "add_student_tool"
  /\ Succeeded(LastCalls[1])
  /\ LastCalls[1].args.student_id \notin DOMAIN LastCalls[1].found.students
  /\ LastCalls[2].name = "delete_student_tool"
  /\ LastCalls[2].args.student_id = LastCalls[1].args.student_id
  /\ Succeeded(LastCalls[2])

\* C34: a successful add_student_tool of an id that is not stored,
\* followed by a successful delete_student_tool of the same id, leaves the
\* students and the activity logs as they were before the add, and
\* get_student_info of that id then returns the not-found failure.
C34_AddThenDeleteRestores ==
  AddThenDelete =>
    /\ db = LastCalls[1].found
    /\ LastCalls[2].left = LastCalls[1].found
    /\ get_student_info(db, [student_id |-> LastCalls[1].args.student_id],
                        QuietEnv).result = NotFound

\* the add and the delete happened, other students having activities
C34_Witness ==
  /\ AddThenDelete
  /\ LastCalls[1].found.activity_logs # <<>>
  /\ LastCalls[1].left # LastCalls[1].found

\* C35: within the stream of one stream_chat() turn the response of every
\* snapshot is a prefix of the response of the next one, also when the LLM
\* fails after fragments were yielded.
C35_TextOnlyGrows ==
  \A i \in 1..(Len(stream) - 1) :
    IsPrefix(stream[i].response, stream[i + 1].response)

\* the assistant entries the stream_chat() turn added to its session
AssistantAdded ==
  LET history == sessions[session_id].conversation_history
      old == HistoryBefore(session_id)
  IN IF Len(history) > Len(old) + 1
     THEN SubSeq(history, Len(old) + 2, Len(history))
     ELSE <<>>

\* C36: the assistant text a stream_chat() turn adds to the history of its
\* session is the response of the last snapshot of the stream, the one
\* with complete = true.
C36_HistoryHasFinalSnapshot ==
  (StreamOver /\ AssistantAdded # <<>>) =>
    /\ Len(AssistantAdded) = 1
    /\ AssistantAdded[1].role = "assistant"
    /\ stream # <<>>
    /\ Last(stream).complete
    /\ Last(stream).response = AssistantAdded[1].content

\* C37: when its session was removed from self.sessions while a
\* stream_chat() turn awaited, the stream of the turn has one snapshot with
\* complete = true, and it is the last one.
C37_OneCompleteAfterDelete ==
  \A t \in 1..MaxTasks :
    (tasks[t].api = "stream_chat" /\ tasks[t].pc = "done" /\ tasks[t].lost) =>
      LET s == tasks[t].snapshots
      IN /\ Cardinality({i \in 1..Len(s) : s[i].complete}) = 1
         /\ \A i \in 1..Len(s) : s[i].complete => i = Len(s)

\* a turn through /chat or /chat/stream is completed: chat() returned, or
\* the complete event was sent; and the session id given back
TurnCompleted ==
  /\ pc = "done"
  /\ \/ api \in {"chat", "chat_endpoint"} /\ result.returned
     \/ api = "stream_endpoint" /\ events # <<>> /\ Last(events).complete

ReturnedId ==
  IF api = "stream_endpoint" THEN endpoint.session_id ELSE result.session_id

\* C38: after a completed turn through /chat or through /chat/stream, on
\* every branch, the session of the returned id is in self.sessions and
\* its history has gained the user entry and the assistant entry of the
\* turn.
C38_EndpointsLeaveSameSession ==
  TurnCompleted =>
    /\ ReturnedId \in DOMAIN sessions
    /\ LET history == sessions[ReturnedId].conversation_history
           old == HistoryBefore(ReturnedId)
       IN /\ Len(history) = Len(old) + 2
          /\ SubSeq(history, 1, Len(old)) = old
          /\ history[Len(old) + 1] = Entry("user", request.message)
          /\ history[Len(old) + 2].role = "assistant"

\* a request to /chat was answered
ChatRequestOver == api = "chat_endpoint" /\ pc = "done"

\* C39: every completed /chat request adds one 'user' message and one
\* 'ai' message to the messages table, both under the session id given
\* back, whether or not the request carried a session id.
C39_TwoMessagesPerRequest ==
  ChatRequestOver =>
    /\ Len(dbLog) = 2 * turns
    /\ dbLog[Len(dbLog) - 1] =
         [session_id |-> result.session_id, user_id |-> endpoint.user_id,
          message_type |-> "user", content |-> request.message]
    /\ dbLog[Len(dbLog)] =
         [session_id |-> result.session_id, user_id |-> endpoint.user_id,
          message_type |-> "ai", content |-> result.response]

\* the request named a session that POST /sessions made for another user
NotTheOwner ==
  /\ request.session_id \in DOMAIN before
  /\ before[request.session_id].user_id \in Callers \ {endpoint.user_id}

\* C40: a /chat request by a user who does not own the session it names
\* adds nothing to the history of the session in self.sessions and no
\* message to the messages table under its id.
C40_OnlyOwnerChanges ==
  (ChatRequestOver /\ NotTheOwner) =>
    LET sid == request.session_id
    IN /\ sid \in DOMAIN sessions
       /\ sessions[sid].conversation_history
            = before[sid].conversation_history
       /\ \A i \in 1..Len(dbLog) :
            dbLog[i].session_id = sid =>
              dbLog[i].user_id = before[sid].user_id

====
